---- MODULE Spec2Model ----
(***************************************************************************)
(* The notes store of elitan/write (notes-store.ts): the zustand store     *)
(* that holds the note directory, the selection and the active document    *)
(* buffer, its debounced write-back (schedulePersist / flush), optimistic  *)
(* creation and workspace switching, run against a backend that answers    *)
(* every request asynchronously and may fail it.                           *)
(*                                                                         *)
(* One action is one synchronous run of JavaScript: a call made by the UI, *)
(* the debounce timer firing, or the delivery of one backend response      *)
(* together with everything the awaiting async function does until its     *)
(* next backend request.  An await of an already settled promise (a        *)
(* flush() that returns at once) is not a point where the UI, the timer or *)
(* the backend can run, so it is part of the same action.                  *)
(***************************************************************************)
EXTENDS Integers, Sequences, FiniteSets, TLC

(***************************************************************************)
(* Bounds of the model.                                                    *)
(***************************************************************************)
MaxOps == 2        \* calls the UI makes in one behaviour
MaxTitleLen == 2   \* characters of a title given to buildContent
MaxBodyLen == 3    \* characters of a body given to buildContent
MaxTextLen == 6    \* characters of a text given to parseContent

(***************************************************************************)
(* Strings are sequences of one-character strings.                         *)
(***************************************************************************)
NL == "\n"
Marker == <<"#", " ">>
NewPage == <<"N", "e", "w", " ", "P", "a", "g", "e">>

StartsWith(s, pre) ==
    /\ Len(s) >= Len(pre)
    /\ SubSeq(s, 1, Len(pre)) = pre

\* text.split("\n"): the lines of a text, at least one
RECURSIVE SplitFrom(_, _, _)
SplitFrom(s, i, cur) ==
    IF i > Len(s) THEN <<cur>>
    ELSE IF s[i] = NL THEN <<cur>> \o SplitFrom(s, i + 1, <<>>)
    ELSE SplitFrom(s, i + 1, Append(cur, s[i]))

SplitLines(s) == SplitFrom(s, 1, <<>>)

\* lines.join("\n")
RECURSIVE JoinLines(_)
JoinLines(ls) ==
    IF Len(ls) = 0 THEN <<>>
    ELSE IF Len(ls) = 1 THEN ls[1]
    ELSE ls[1] \o <<NL>> \o JoinLines(Tail(ls))

\* the last line that starts with the marker, 0 when none
FindLastTitleLine(ls) ==
    LET hits == {i \in 1..Len(ls) : StartsWith(ls[i], Marker)}
    IN  IF hits = {} THEN 0 ELSE CHOOSE i \in hits : \A j \in hits : i >= j

\* lines.findIndex(line => line.startsWith("# ")), 1-based, 0 when none
FindTitleLine(ls) ==
    LET hits == {i \in 1..Len(ls) : StartsWith(ls[i], Marker)}
    IN  IF hits = {} THEN 0 ELSE CHOOSE i \in hits : \A j \in hits : i <= j

\* a decoder that looks for the title on the first line only
ParseFirstLineOnly(content) ==
    LET lines == SplitLines(content)
    IN  IF ~StartsWith(lines[1], Marker)
        THEN [title |-> <<>>, body |-> content]
        ELSE [title |-> SubSeq(lines[1], 3, Len(lines[1])),
              body |-> JoinLines(Tail(lines))]

parseContent(content) ==
    LET lines == SplitLines(content)
        k == FindTitleLine(lines)
    IN  IF k = 0 THEN [title |-> <<>>, body |-> content]
        ELSE [title |-> SubSeq(lines[k], 3, Len(lines[k])),
              body |-> JoinLines(SubSeq(lines, 1, k - 1)
                                 \o SubSeq(lines, k + 1, Len(lines)))]

\* an encoder that writes no title line for an empty title
BuildSkipsEmptyTitle(title, body) ==
    IF title = <<>> THEN body ELSE Marker \o title \o <<NL>> \o body

buildContent(title, body) == Marker \o title \o <<NL>> \o body

(***************************************************************************)
(* Paths.  A path is the record [temp, id, slug]: temp says that the       *)
(* string starts with "temp-" (the path `temp-${Date.now()}` of            *)
(* createNote, id the clock reading); otherwise it is a path of the        *)
(* backend, "/notes/<id>-<slug>.md", whose slug is derived from the title. *)
(* Null is the null selection.                                             *)
(***************************************************************************)
Null == [temp |-> FALSE, id |-> 0, slug |-> <<>>]
TempPath(t) == [temp |-> TRUE, id |-> t, slug |-> <<>>]
RealPath(i, slug) == [temp |-> FALSE, id |-> i, slug |-> slug]
StartsWithTemp(p) == p.temp

\* realPath.split("/").pop(): the last segment; a temporary path has no
\* "/" and is its own last segment
LastSegment(p) == [whole |-> p.temp, of |-> p]
\* name: tempPath
WholeName(p) == [whole |-> TRUE, of |-> p]

NullContent == [some |-> FALSE, title |-> <<>>, body |-> <<>>, isDirty |-> FALSE]
\* a buffer that is always marked dirty
ContentDirty(t, b, d) ==
    [some |-> TRUE, title |-> t, body |-> b, isDirty |-> TRUE]

Content(t, b, d) ==
    [some |-> TRUE, title |-> t, body |-> b, isDirty |-> d]

(***************************************************************************)
(* State.                                                                  *)
(***************************************************************************)
VARIABLES
    workspaces,         \* NotesState.workspaces: sequence of [id, name,
                        \* shortcut]
    workspacesLoading,  \* NotesState.workspacesLoading
    notes,              \* NotesState.notes: sequence of [name, path, title]
    notesLoading,       \* NotesState.notesLoading
    selectedPath,       \* NotesState.selectedPath, Null when null
    noteContent,        \* NotesState.noteContent, NullContent when null
    activeWorkspaceId,  \* NotesState.activeWorkspaceId, 0 when null
    isCreatingProp,     \* the store's isCreating property: "getter" while it
                        \* is still the accessor of the initial object, then
                        \* the data value "true" / "false" it was copied as
    saveTimeout,        \* number of armed debounce timers
    calls,              \* backend requests in flight, by task
    files,              \* the backend: sequence of [path, content], in
                        \* listing order
    config,             \* the backend: [workspaces, active_workspace_id]
    noteCounter,        \* the backend: the number of the last path handed out
    clock,              \* the last reading of Date.now()
    ops,                \* calls the UI has made so far
    writeFailed,        \* history: some write_note has failed
    edited,             \* history: setTitle or setBody was called on the
                        \* buffer, and the selection is the same since
    editsPending,       \* history: setBody was called on the selected note
                        \* since the timer last fired or a flush last wrote
    last,               \* history: what the last step did
    before,             \* history: the store, the timers and the requests
                        \* as the last step found them
    codec,              \* a call of parseContent / buildContent on its own:
                        \* the arguments, and the results once computed
    appContent,         \* App: useFiles' content, the text of the note read
    localStorage,       \* App: the value stored under the key
                        \* write-workspace-<id>-selected, by workspace id,
                        \* Null when the key is absent
    prevWorkspaceRef,   \* App: prevWorkspaceRef.current, 0 when null
    bufferPaths,        \* history: the paths under which the document of
                        \* the buffer has been known since its buffer was
                        \* installed, {} when there is no buffer
    lastSelect,         \* history: the selectNote call made last: its path,
                        \* its task, and "pending", "ok" or "fail" for its
                        \* read_note; "none" when no call was made
    deletedPaths,       \* history: the paths whose delete_note the backend
                        \* has processed
    failedFlush,        \* history: the tasks of the actions under way whose
                        \* flush had its write_note fail
    useSettings,        \* the useSettings hook and localStorage's item
                        \* "write-settings": the settings in memory, the
                        \* item's text, and the history of the hook's steps
    appEditor,          \* App: the Editor mounted on the selected note (its
                        \* title, its document, its save timer), the
                        \* deleteConfirm state, and the confirmations given
    chosen              \* history, App: by workspace id, the paths whose
                        \* selection was asked for while it was active

storeVars == <<workspaces, workspacesLoading, notes, notesLoading,
               selectedPath, noteContent, activeWorkspaceId, isCreatingProp>>
vars == <<workspaces, workspacesLoading, notes, notesLoading, selectedPath,
          noteContent, activeWorkspaceId, isCreatingProp, saveTimeout, calls,
          files, config, noteCounter, clock, ops, writeFailed, edited, editsPending, last,
          before, codec, appContent, localStorage, prevWorkspaceRef,
          chosen, bufferPaths, lastSelect, deletedPaths, failedFlush,
          useSettings, appEditor>>

\* the state of the App component, which the store on its own does not have
appVars == <<appContent, localStorage, prevWorkspaceRef, chosen>>

\* all but codec, useSettings and appEditor
programVars ==
    <<workspaces, workspacesLoading, notes, notesLoading, selectedPath,
      noteContent, activeWorkspaceId, isCreatingProp, saveTimeout, calls,
      files, config, noteCounter, clock, ops, writeFailed, edited,
      editsPending, last, before, appContent, localStorage,
      prevWorkspaceRef,
      chosen, bufferPaths, lastSelect, deletedPaths, failedFlush>>

\* every task is started by a call of the UI, or by a timer that one armed
Tasks == 1..MaxOps
WorkspaceIds == {1, 2}
Titles == {<<>>, <<"b">>}
\* the workspaces the backend holds at the start, the first one active
InitialConfig ==
    [workspaces |-> << [id |-> 1, name |-> "Notes", shortcut |-> "1"],
                       [id |-> 2, name |-> "Work", shortcut |-> ""] >>,
     active_workspace_id |-> 1,
     next_id |-> 3]

\* the two notes the backend holds at the start
InitialFiles ==
    << [path |-> RealPath(1, <<"a">>),
        content |-> buildContent(<<"a">>, <<"x">>)],
       [path |-> RealPath(2, <<>>), content |-> <<"x">>] >>

(***************************************************************************)
(* The history record of a step.                                           *)
(*   ev        the event: the UI call, "timer", or the response delivered  *)
(*   then      what the awaiting function went on to do in the same step   *)
(*   task      the task of the request answered or issued                  *)
(*   path      the path the event is about                                 *)
(*   content   the content of the write acknowledged; the value given to   *)
(*             setTitle or setBody                                         *)
(*   answer    the path the backend answered the write with                *)
(*   wasDirty  the buffer was present and dirty when the step began        *)
(*   lostDirty a buffer was replaced or cleared by the step while dirty    *)
(*   sel       selectedPath when the step replaced or cleared the buffer   *)
(*   n         write_note requests the step issued                         *)
(*   direct    the step before was the one that issued the request         *)
(*   edits     the timer fired with editsPending                           *)
(*   wrote     the flush of the action answered had issued a write_note    *)
(*   ws        the workspaceId of the request answered                     *)
(***************************************************************************)
NoStep ==
    [ev |-> "init", then |-> "none", task |-> 0, path |-> Null,
     content |-> <<>>, answer |-> Null, wasDirty |-> FALSE, lostDirty |-> FALSE,
     sel |-> Null, n |-> 0, direct |-> FALSE, edits |-> FALSE,
     wrote |-> FALSE, ws |-> 0]

Step(ev, task, path) ==
    [NoStep EXCEPT !.ev = ev, !.task = task, !.path = path,
                   !.wasDirty = noteContent.some /\ noteContent.isDirty,
                   !.edits = (ev = "timer" /\ editsPending)]

(***************************************************************************)
(* isCreating.  The initial state object defines isCreating as an accessor *)
(* (get isCreating() { ... }).  zustand's setState builds every later      *)
(* state with Object.assign({}, state, nextState), and immer's produce     *)
(* copies the base object the same way: both read an accessor and store    *)
(* the value read, computed from the state before the update.  So the      *)
(* property is live only until the first update that changes the state.    *)
(***************************************************************************)
IsCreatingOf(prop, sp) ==
    IF prop = "getter" THEN StartsWithTemp(sp) ELSE prop = "true"

\* the property after set(...) ran on a state whose selectedPath was sp
AfterSet(prop, sp, changed) ==
    IF prop = "getter" /\ changed
    THEN (IF StartsWithTemp(sp) THEN "true" ELSE "false")
    ELSE prop

(***************************************************************************)
(* Requests in flight.  calls maps a task to the one request its async     *)
(* function is awaiting:                                                   *)
(*   cmd      the backend command                                          *)
(*   path     the path argument (write_note, read_note)                    *)
(*   content  the content argument (write_note); the name argument        *)
(*            (create_workspace, rename_workspace)                         *)
(*   op       the store action that awaits it                              *)
(*   arg      selectNote's path, createNote's tempPath                     *)
(*   ws       the workspaceId argument                                     *)
(*   wrote    history: the action's flush issued a write_note              *)
(***************************************************************************)
InFlight == {t \in Tasks : calls[t].cmd # "none"}
Idle == [cmd |-> "none", path |-> Null, content |-> <<>>, op |-> "none",
         arg |-> Null, ws |-> 0, wrote |-> FALSE]
FreeTask == CHOOSE t \in Tasks \ InFlight : \A u \in Tasks \ InFlight : t <= u
HasFreeTask == InFlight # Tasks

Call(cmd, path, content, op, arg, ws, wrote) ==
    [cmd |-> cmd, path |-> path, content |-> content, op |-> op,
     arg |-> arg, ws |-> ws, wrote |-> wrote]

Writes == {t \in InFlight : calls[t].cmd = "write_note"}

(***************************************************************************)
(* The backend (the persistence surface behind invoke).  A request takes   *)
(* effect and is answered in one step; every request may fail instead.     *)
(***************************************************************************)
FileIndex(p) ==
    LET hits == {i \in 1..Len(files) : files[i].path = p}
    IN  IF hits = {} THEN 0 ELSE CHOOSE i \in hits : \A j \in hits : i <= j

\* the id of the next path the backend hands out
FreshId == noteCounter + 1

\* write_note: files.set(path, content); the path answered is np, and the
\* file is found under it from then on, in the place of the path written
BackendWrite(path, content, np) ==
    LET i == FileIndex(path)
        f == [path |-> np, content |-> content]
        others == SelectSeq(files, LAMBDA g : g.path # path /\ g.path # np)
        k == Cardinality({j \in 1..(i - 1) : files[j].path # np})
    IN  IF i = 0 THEN Append(others, f)
        ELSE SubSeq(others, 1, k) \o <<f>> \o SubSeq(others, k + 1, Len(others))

\* the paths write_note may answer with: the path written, or that path
\* with its slug brought in line with the title written
WriteAnswers(path, content) ==
    {path} \cup (IF StartsWithTemp(path) THEN {}
                 ELSE {[path EXCEPT !.slug = parseContent(content).title]})

\* delete_note: the file is gone
BackendDelete(path) == SelectSeq(files, LAMBDA f : f.path # path)

\* the paths reorder_note may answer with: the path moved, or that path
\* with a new ordinal
ReorderAnswers(path) ==
    {path} \cup (IF StartsWithTemp(path) THEN {}
                 ELSE {[path EXCEPT !.id = FreshId]})

\* the title the backend lists for a file: its H1, "New Page" when none
ListedTitle(content) ==
    LET t == parseContent(content).title
    IN  IF t = <<>> THEN NewPage ELSE t

\* list_notes
BackendList ==
    [i \in 1..Len(files) |->
        [name |-> LastSegment(files[i].path), path |-> files[i].path,
         title |-> ListedTitle(files[i].content)]]

(***************************************************************************)
(* Helpers of the store.                                                   *)
(***************************************************************************)
\* ns.findIndex(n => n.path === p), 1-based, 0 when none
NoteIndex(ns, p) ==
    LET hits == {i \in 1..Len(ns) : ns[i].path = p}
    IN  IF hits = {} THEN 0 ELSE CHOOSE i \in hits : \A j \in hits : i <= j

\* a reconciliation that sets the path of the entry and forgets its name
RenamePathOnly(ns, old, np) ==
    LET i == NoteIndex(ns, old)
    IN  IF i = 0 THEN ns ELSE [ns EXCEPT ![i].path = np]

\* a reconciliation that sets the name of the entry and forgets its path
RenameNameOnly(ns, old, np) ==
    LET i == NoteIndex(ns, old)
    IN  IF i = 0 THEN ns ELSE [ns EXCEPT ![i].name = LastSegment(np)]

\* note.path = np; note.name = np.split("/").pop()
RenameEntry(ns, old, np) ==
    LET i == NoteIndex(ns, old)
    IN  IF i = 0 THEN ns
        ELSE [ns EXCEPT ![i].path = np, ![i].name = LastSegment(np)]

\* a removal that drops the first entry, whatever its path
WithoutFirst(ns, p) == IF Len(ns) = 0 THEN ns ELSE Tail(ns)

\* ns.filter(n => n.path !== p)
RECURSIVE WithoutPath(_, _)
WithoutPath(ns, p) ==
    IF Len(ns) = 0 THEN <<>>
    ELSE IF ns[1].path = p THEN WithoutPath(Tail(ns), p)
    ELSE <<ns[1]>> \o WithoutPath(Tail(ns), p)

\* schedulePersist: clear the timer held in saveTimeout, arm a new one
SchedulePersist(armed) == (IF armed > 0 THEN armed - 1 ELSE 0) + 1

\* a flush that never writes: an action that goes on without its flush
NeverFlush(sp, nc, prop) == FALSE

\* flush goes on to write: none of its four early-return conditions holds
NeedsFlush(sp, nc, prop) ==
    /\ nc.some
    /\ sp # Null
    /\ nc.isDirty
    /\ ~IsCreatingOf(prop, sp)

\* the history variables other than last follow from the step
Track ==
    /\ failedFlush' =
         IF last'.ev = "write_fail" THEN failedFlush \cup {last'.task}
         ELSE IF last'.task \in Tasks /\ calls[last'.task].cmd = "none"
              THEN failedFlush \ {last'.task}
         ELSE failedFlush
    /\ deletedPaths' =
         IF last'.ev \in {"delete_ok", "delete_processed"}
         THEN deletedPaths \cup {calls[last'.task].arg}
         ELSE deletedPaths
    /\ lastSelect' =
         IF last'.ev = "selectNote"
         THEN [path |-> last'.path, task |-> last'.task, read |-> "pending"]
         ELSE IF /\ last'.ev \in {"read_ok", "read_fail"}
                 /\ last'.task = lastSelect.task
                 /\ lastSelect.read = "pending"
              THEN [lastSelect EXCEPT
                       !.read = IF last'.ev = "read_ok" THEN "ok" ELSE "fail"]
         ELSE lastSelect
    /\ bufferPaths' =
         IF ~noteContent'.some THEN {}
         ELSE IF last'.then \in {"install", "create"} THEN {selectedPath'}
         ELSE IF /\ last'.ev = "write_ok"
                 /\ calls[last'.task].path \in bufferPaths
              THEN bufferPaths \cup {last'.answer}
         ELSE IF /\ last'.ev \in {"create_ok", "reorder_ok"}
                 /\ calls[last'.task].arg \in bufferPaths
              THEN bufferPaths \cup {last'.path}
         ELSE bufferPaths
    /\ before' = [workspaces |-> workspaces, notes |-> notes,
                  selectedPath |-> selectedPath,
                  noteContent |-> noteContent,
                  activeWorkspaceId |-> activeWorkspaceId,
                  saveTimeout |-> saveTimeout, calls |-> calls]
    /\ ops' = IF last'.ev \in {"loadWorkspaces", "loadNotes", "selectNote",
                              "deselectNote", "createNote", "setTitle",
                              "setBody", "flush", "switchWorkspace",
                              "deleteNote", "reorderNote",
                              "createWorkspace", "deleteWorkspace",
                              "renameWorkspace", "editorInput",
                              "deleteRequest", "confirmDelete",
                              "cancelDelete"}
              THEN ops + 1 ELSE ops
    /\ writeFailed' = (writeFailed \/ last'.ev = "write_fail")
    /\ edited' =
         IF last'.ev \in {"setTitle", "setBody"} /\ noteContent.some
         THEN TRUE
         ELSE IF \/ last'.then \in {"install", "create", "clear"}
                 \/ selectedPath' # selectedPath
                 \/ ~noteContent'.some
              THEN FALSE
              ELSE edited
    /\ editsPending' =
         IF /\ last'.ev = "setBody"
            /\ noteContent.some
            /\ selectedPath # Null
            /\ ~StartsWithTemp(selectedPath)
         THEN TRUE
         ELSE IF \/ last'.ev = "timer"
                 \/ last'.n > 0
                 \/ last'.then \in {"install", "create", "clear"}
                 \/ selectedPath' # selectedPath
                 \/ ~noteContent'.some
              THEN FALSE
              ELSE editsPending

\* no Editor is mounted and no confirmation is open
NoEditor ==
    [title |-> <<>>, body |-> <<>>, lastSaved |-> <<>>,
     timer |-> [armed |-> FALSE, text |-> <<>>, path |-> Null],
     isSaving |-> FALSE, deleteConfirm |-> Null, confirmed |-> {}]

\* no selectNote call was made
NoSelect == [path |-> Null, task |-> 0, read |-> "none"]

\* a step of the store: the App component is not mounted
Hist ==
    /\ UNCHANGED <<codec, useSettings, appEditor, appVars>>
    /\ Track

(***************************************************************************)
(* What an async action does once its flush() has returned, on the store   *)
(* values ns, sp, nc, prop that the flush left: flush itself is done,      *)
(* selectNote requests the text, switchWorkspace requests the activation,  *)
(* createNote installs the temporary note and requests the creation.       *)
(***************************************************************************)
AfterFlush(t, op, arg, ws, wrote, ns, sp, nc, prop, l) ==
    /\ UNCHANGED <<workspaces, workspacesLoading>>
    /\ notesLoading' = notesLoading
    /\ activeWorkspaceId' = activeWorkspaceId
    /\ IF op = "createNote"
       THEN \E tm \in {clock, clock + 1} \ {0} :
              LET tempPath == TempPath(tm)
                  tempNote == [name |-> WholeName(tempPath),
                               path |-> tempPath, title |-> NewPage]
              IN  /\ clock' = tm
                  /\ notes' = <<tempNote>> \o ns
                  /\ selectedPath' = tempPath
                  /\ noteContent' = Content(<<>>, <<>>, FALSE)
                  /\ isCreatingProp' = AfterSet(prop, sp, TRUE)
                  /\ calls' = [calls EXCEPT ![t] =
                        Call("create_note", Null, <<>>, op, tempPath, 0, wrote)]
                  /\ last' = [l EXCEPT !.then = "create", !.path = tempPath,
                                       !.lostDirty = nc.some /\ nc.isDirty,
                                       !.sel = sp]
       ELSE /\ clock' = clock
            /\ notes' = ns
            /\ selectedPath' = sp
            /\ noteContent' = nc
            /\ isCreatingProp' = prop
            /\ CASE op = "selectNote" ->
                      /\ calls' = [calls EXCEPT ![t] =
                            Call("read_note", arg, <<>>, op, arg, 0, wrote)]
                      /\ last' = [l EXCEPT !.then = "read"]
                 [] op = "switchWorkspace" ->
                      /\ calls' = [calls EXCEPT ![t] =
                            Call("set_active_workspace", Null, <<>>, op, Null,
                                 ws, wrote)]
                      /\ last' = [l EXCEPT !.then = "activate"]
                 [] OTHER ->
                      /\ calls' = [calls EXCEPT ![t] = Idle]
                      /\ last' = l

\* the start of flush, and of the actions that begin with await get().flush()
StartOp(ev, op, arg, ws) ==
    LET t == FreeTask
        l == Step(ev, t, arg)
    IN  /\ HasFreeTask
        /\ IF NeedsFlush(selectedPath, noteContent, isCreatingProp)
           THEN /\ calls' = [calls EXCEPT ![t] =
                      Call("write_note", selectedPath,
                           buildContent(noteContent.title, noteContent.body),
                           op, arg, ws, TRUE)]
                /\ last' = [l EXCEPT !.then = "write", !.n = 1]
                /\ UNCHANGED <<storeVars, clock>>
           ELSE AfterFlush(t, op, arg, ws, FALSE, notes, selectedPath,
                           noteContent, isCreatingProp, l)

(***************************************************************************)
(* Calls made by the UI.                                                   *)
(***************************************************************************)
\* the paths the UI can ask for: those listed and those the backend holds
KnownPaths ==
    {notes[i].path : i \in 1..Len(notes)}
        \cup {files[i].path : i \in 1..Len(files)}

LoadWorkspaces ==
    /\ ops < MaxOps
    /\ HasFreeTask
    /\ calls' = [calls EXCEPT ![FreeTask] =
          Call("get_workspaces", Null, <<>>, "loadWorkspaces", Null, 0,
               FALSE)]
    /\ last' = Step("loadWorkspaces", FreeTask, Null)
    /\ UNCHANGED <<storeVars, saveTimeout, files, config, noteCounter, clock>>
    /\ Hist

LoadNotes ==
    /\ ops < MaxOps
    /\ HasFreeTask
    /\ calls' = [calls EXCEPT ![FreeTask] =
          Call("ensure_notes_dir", Null, <<>>, "loadNotes", Null, 0, FALSE)]
    /\ last' = Step("loadNotes", FreeTask, Null)
    /\ UNCHANGED <<storeVars, saveTimeout, files, config, noteCounter, clock>>
    /\ Hist

SelectNote(path) ==
    /\ ops < MaxOps
    /\ StartOp("selectNote", "selectNote", path, 0)
    /\ UNCHANGED <<saveTimeout, files, config, noteCounter>>
    /\ Hist

\* a deselection that sends the dirty buffer to the backend first
DeselectFlushes ==
    /\ ops < MaxOps
    /\ HasFreeTask
    /\ selectedPath' = Null
    /\ noteContent' = NullContent
    /\ isCreatingProp' =
          AfterSet(isCreatingProp, selectedPath,
                   selectedPath # Null \/ noteContent # NullContent)
    /\ calls' =
          IF NeedsFlush(selectedPath, noteContent, isCreatingProp)
          THEN [calls EXCEPT ![FreeTask] =
                  Call("write_note", selectedPath,
                       buildContent(noteContent.title, noteContent.body),
                       "flush", Null, 0, TRUE)]
          ELSE calls
    /\ last' = [Step("deselectNote", 0, selectedPath) EXCEPT
                   !.sel = selectedPath]
    /\ UNCHANGED <<workspaces, workspacesLoading, notes, notesLoading,
                   activeWorkspaceId, saveTimeout, files, config,
                   noteCounter, clock>>
    /\ Hist

DeselectNote ==
    /\ ops < MaxOps
    /\ selectedPath' = Null
    /\ noteContent' = NullContent
    /\ isCreatingProp' =
          AfterSet(isCreatingProp, selectedPath,
                   selectedPath # Null \/ noteContent # NullContent)
    /\ last' = [Step("deselectNote", 0, selectedPath) EXCEPT
                   !.sel = selectedPath]
    /\ UNCHANGED <<workspaces, workspacesLoading, notes, notesLoading,
                   activeWorkspaceId, saveTimeout, calls, files, config,
                   noteCounter, clock>>
    /\ Hist

CreateNote ==
    /\ ops < MaxOps
    /\ StartOp("createNote", "createNote", Null, 0)
    /\ UNCHANGED <<saveTimeout, files, config, noteCounter>>
    /\ Hist

DeleteNote(path) ==
    /\ ops < MaxOps
    /\ HasFreeTask
    /\ calls' = [calls EXCEPT ![FreeTask] =
          Call("delete_note", path, <<>>, "deleteNote", path, 0, FALSE)]
    /\ last' = Step("deleteNote", FreeTask, path)
    /\ UNCHANGED <<storeVars, saveTimeout, files, config, noteCounter, clock>>
    /\ Hist

\* newIndex is passed on in ws
ReorderNote(path, newIndex) ==
    /\ ops < MaxOps
    /\ HasFreeTask
    /\ calls' = [calls EXCEPT ![FreeTask] =
          Call("reorder_note", path, <<>>, "reorderNote", path, newIndex,
               FALSE)]
    /\ last' = Step("reorderNote", FreeTask, path)
    /\ UNCHANGED <<storeVars, saveTimeout, files, config, noteCounter, clock>>
    /\ Hist

\* a mirror that copies the title as it is given
TitleAsGiven(title) == title

\* title || "New Page"
TitleOrNewPage(title) == IF title = <<>> THEN NewPage ELSE title

SetTitle(title) ==
    LET i == NoteIndex(notes, selectedPath)
    IN  /\ ops < MaxOps
        /\ noteContent' =
              IF noteContent.some
              THEN [noteContent EXCEPT !.title = title, !.isDirty = TRUE]
              ELSE noteContent
        /\ notes' =
              IF i = 0 THEN notes
              ELSE [notes EXCEPT ![i].title = TitleOrNewPage(title)]
        /\ isCreatingProp' =
              AfterSet(isCreatingProp, selectedPath,
                       noteContent' # noteContent \/ notes' # notes)
        /\ saveTimeout' =
              IF ~IsCreatingOf(isCreatingProp', selectedPath)
              THEN SchedulePersist(saveTimeout) ELSE saveTimeout
        /\ last' = [Step("setTitle", 0, selectedPath) EXCEPT
                       !.content = title]
        /\ UNCHANGED <<workspaces, workspacesLoading, notesLoading,
                       selectedPath, activeWorkspaceId, calls, files, config,
                       noteCounter, clock>>
        /\ Hist

SetBody(body) ==
    /\ ops < MaxOps
    /\ noteContent' =
          IF noteContent.some
          THEN [noteContent EXCEPT !.body = body, !.isDirty = TRUE]
          ELSE noteContent
    /\ isCreatingProp' =
          AfterSet(isCreatingProp, selectedPath, noteContent' # noteContent)
    /\ saveTimeout' =
          IF ~IsCreatingOf(isCreatingProp', selectedPath)
          THEN SchedulePersist(saveTimeout) ELSE saveTimeout
    /\ last' = [Step("setBody", 0, selectedPath) EXCEPT !.content = body]
    /\ UNCHANGED <<workspaces, workspacesLoading, notes, notesLoading,
                   selectedPath, activeWorkspaceId, calls, files, config,
                   noteCounter, clock>>
    /\ Hist

\* flush() called by the UI
Flush ==
    /\ ops < MaxOps
    /\ StartOp("flush", "flush", Null, 0)
    /\ UNCHANGED <<saveTimeout, files, config, noteCounter>>
    /\ Hist

SwitchWorkspace(workspaceId) ==
    /\ ops < MaxOps
    /\ StartOp("switchWorkspace", "switchWorkspace", Null, workspaceId)
    /\ UNCHANGED <<saveTimeout, files, config, noteCounter>>
    /\ Hist

(***************************************************************************)
(* The debounce timer fires: store.getState().flush().                     *)
(***************************************************************************)
TimerFire ==
    /\ saveTimeout > 0
    /\ saveTimeout' = saveTimeout - 1
    /\ StartOp("timer", "flush", Null, 0)
    /\ UNCHANGED <<files, config, noteCounter>>
    /\ Hist

(***************************************************************************)
(* Backend responses, each with the rest of the async function that was    *)
(* awaiting it, up to its next request.                                    *)
(***************************************************************************)
Answer(ev, t) ==
    [Step(ev, t, calls[t].path) EXCEPT !.direct = (last.task = t),
                                       !.wrote = calls[t].wrote,
                                       !.ws = calls[t].ws]

\* write_note succeeds, answering newPath: the set(...) of flush, then the
\* action that awaited the flush goes on
WriteOk(t, newPath) ==
    LET c == calls[t]
        selectedPath0 == c.path     \* the selectedPath flush read at its start
        nc1 == IF noteContent.some
               THEN [noteContent EXCEPT !.isDirty = FALSE] ELSE noteContent
        sp1 == IF newPath # selectedPath0 THEN newPath ELSE selectedPath
        ns1 == IF newPath # selectedPath0
               THEN RenameEntry(notes, selectedPath0, newPath) ELSE notes
        prop1 == AfterSet(isCreatingProp, selectedPath,
                          <<nc1, sp1, ns1>> # <<noteContent, selectedPath, notes>>)
    IN  /\ c.cmd = "write_note"
        /\ newPath \in WriteAnswers(c.path, c.content)
        /\ files' = BackendWrite(c.path, c.content, newPath)
        /\ AfterFlush(t, c.op, c.arg, c.ws, TRUE, ns1, sp1, nc1, prop1,
                      [Answer("write_ok", t) EXCEPT !.content = c.content,
                                                   !.answer = newPath])
        /\ UNCHANGED <<saveTimeout, config, noteCounter>>
        /\ Hist

\* write_note fails: flush logs and returns, the awaiting action goes on
WriteFail(t) ==
    LET
        \* the catch of flush: console.error, the buffer is left as it is
        AfterWriteError(nc) == nc
    IN
    LET c == calls[t]
    IN  /\ c.cmd = "write_note"
        /\ AfterFlush(t, c.op, c.arg, c.ws, TRUE, notes, selectedPath,
                      AfterWriteError(noteContent), isCreatingProp,
                      Answer("write_fail", t))
        /\ UNCHANGED <<saveTimeout, files, config, noteCounter>>
        /\ Hist

ReadOk(t) ==
    LET c == calls[t]
        text == files[FileIndex(c.path)].content
        parsed == parseContent(text)
    IN  /\ c.cmd = "read_note"
        /\ FileIndex(c.path) # 0
        /\ selectedPath' = c.arg
        /\ noteContent' = Content(parsed.title, parsed.body, FALSE)
        /\ isCreatingProp' =
              AfterSet(isCreatingProp, selectedPath,
                       <<selectedPath', noteContent'>>
                           # <<selectedPath, noteContent>>)
        /\ calls' = [calls EXCEPT ![t] = Idle]
        /\ last' = [Answer("read_ok", t) EXCEPT
                       !.then = "install", !.sel = selectedPath,
                       !.lostDirty = noteContent.some /\ noteContent.isDirty]
        /\ UNCHANGED <<workspaces, workspacesLoading, notes, notesLoading,
                       activeWorkspaceId, saveTimeout, files, config,
                       noteCounter, clock>>
        /\ Hist

\* a catch that reloads the directory
CaughtReloads(t) ==
    [calls EXCEPT ![t] =
        Call("list_notes", Null, <<>>, "loadNotes", Null, 0, FALSE)]

\* a catch that only logs: the async function of task t ends, nothing is
\* requested
Caught(t) == [calls EXCEPT ![t] = Idle]

ReadFail(t) ==
    /\ calls[t].cmd = "read_note"
    /\ calls' = Caught(t)
    /\ last' = Answer("read_fail", t)
    /\ UNCHANGED <<storeVars, saveTimeout, files, config, noteCounter, clock>>
    /\ Hist

CreateOk(t) ==
    LET
        \* create_note: a new empty file, first in the listing
        BackendCreate(np) == <<[path |-> np, content |-> <<>>]>> \o files
    IN
    LET c == calls[t]
        tempPath == c.arg
        realPath == RealPath(FreshId, <<>>)
    IN  /\ c.cmd = "create_note"
        /\ files' = BackendCreate(realPath)
        /\ notes' = RenameEntry(notes, tempPath, realPath)
        /\ selectedPath' = realPath
        /\ isCreatingProp' = AfterSet(isCreatingProp, selectedPath, TRUE)
        /\ calls' = [calls EXCEPT ![t] = Idle]
        /\ last' = [Answer("create_ok", t) EXCEPT
                       !.path = realPath, !.sel = selectedPath]
        /\ noteCounter' = noteCounter + 1
        /\ UNCHANGED <<workspaces, workspacesLoading, notesLoading,
                       noteContent, activeWorkspaceId, saveTimeout, config,
                       clock>>
        /\ Hist

CreateFail(t) ==
    LET c == calls[t]
        tempPath == c.arg
    IN  /\ c.cmd = "create_note"
        /\ notes' = WithoutPath(notes, tempPath)
        /\ selectedPath' = Null
        /\ noteContent' = NullContent
        /\ isCreatingProp' =
              AfterSet(isCreatingProp, selectedPath,
                       <<notes', selectedPath', noteContent'>>
                           # <<notes, selectedPath, noteContent>>)
        /\ calls' = [calls EXCEPT ![t] = Idle]
        /\ last' = [Answer("create_fail", t) EXCEPT
                       !.then = "clear", !.path = tempPath,
                       !.sel = selectedPath,
                       !.lostDirty = noteContent.some /\ noteContent.isDirty]
        /\ UNCHANGED <<workspaces, workspacesLoading, notesLoading,
                       activeWorkspaceId, saveTimeout, files, config,
                       noteCounter, clock>>
        /\ Hist

DeleteOk(t) ==
    LET c == calls[t]
        path == c.arg
        hit == selectedPath = path
    IN  /\ c.cmd = "delete_note"
        /\ files' = BackendDelete(path)
        /\ notes' = WithoutPath(notes, path)
        /\ selectedPath' = IF hit THEN Null ELSE selectedPath
        /\ noteContent' = IF hit THEN NullContent ELSE noteContent
        /\ isCreatingProp' = AfterSet(isCreatingProp, selectedPath, TRUE)
        /\ calls' = [calls EXCEPT ![t] = Idle]
        /\ last' = [Answer("delete_ok", t) EXCEPT
                       !.then = IF hit THEN "unselect" ELSE "none",
                       !.sel = selectedPath]
        /\ UNCHANGED <<workspaces, workspacesLoading, notesLoading,
                       activeWorkspaceId, saveTimeout, config, noteCounter,
                       clock>>
        /\ Hist

DeleteFail(t) ==
    /\ calls[t].cmd = "delete_note"
    /\ calls' = Caught(t)
    /\ last' = Answer("delete_fail", t)
    /\ UNCHANGED <<storeVars, saveTimeout, files, config, noteCounter, clock>>
    /\ Hist

\* a reorder that leaves the selection at the old path
ReselectNever(sp, path, newPath) == sp

\* if (state.selectedPath === path) state.selectedPath = newPath
Reselect(sp, path, newPath) == IF sp = path THEN newPath ELSE sp

\* reorder_note succeeds, answering newPath: the set(...), then loadNotes()
\* up to its first request
ReorderOk(t, newPath) ==
    LET
        \* reorder_note: the file moves to position newIndex (zero-based) among the
        \* others, under the path np
        BackendReorder(path, newIndex, np) ==
            LET rest == BackendDelete(path)
                k == IF newIndex > Len(rest) THEN Len(rest) ELSE newIndex
                f == [path |-> np, content |-> files[FileIndex(path)].content]
            IN  SubSeq(rest, 1, k) \o <<f>> \o SubSeq(rest, k + 1, Len(rest))
    IN
    LET c == calls[t]
        path == c.arg
    IN  /\ c.cmd = "reorder_note"
        /\ FileIndex(path) # 0
        /\ newPath \in ReorderAnswers(path)
        /\ files' = BackendReorder(path, c.ws, newPath)
        /\ selectedPath' = Reselect(selectedPath, path, newPath)
        /\ isCreatingProp' =
              AfterSet(isCreatingProp, selectedPath,
                       selectedPath' # selectedPath)
        /\ calls' = [calls EXCEPT ![t] =
              Call("ensure_notes_dir", Null, <<>>, "loadNotes", Null, 0,
                   FALSE)]
        /\ last' = [Answer("reorder_ok", t) EXCEPT
                       !.then = "reload", !.path = newPath,
                       !.sel = selectedPath]
        /\ noteCounter' = IF newPath = path THEN noteCounter
                          ELSE noteCounter + 1
        /\ UNCHANGED <<workspaces, workspacesLoading, notes, notesLoading,
                       noteContent, activeWorkspaceId, saveTimeout, config,
                       clock>>
        /\ Hist

ReorderFail(t) ==
    /\ calls[t].cmd = "reorder_note"
    /\ calls' = Caught(t)
    /\ last' = Answer("reorder_fail", t)
    /\ UNCHANGED <<storeVars, saveTimeout, files, config, noteCounter, clock>>
    /\ Hist

SetActiveOk(t) ==
    LET c == calls[t]
    IN  /\ c.cmd = "set_active_workspace"
        /\ activeWorkspaceId' = c.ws
        /\ selectedPath' = Null
        /\ noteContent' = NullContent
        /\ isCreatingProp' =
              AfterSet(isCreatingProp, selectedPath,
                       <<activeWorkspaceId', selectedPath', noteContent'>>
                           # <<activeWorkspaceId, selectedPath, noteContent>>)
        /\ calls' = [calls EXCEPT ![t] = Idle]
        /\ last' = [Answer("activate_ok", t) EXCEPT
                       !.then = "clear", !.sel = selectedPath,
                       !.lostDirty = noteContent.some /\ noteContent.isDirty]
        /\ config' = [config EXCEPT !.active_workspace_id = c.ws]
        /\ UNCHANGED <<workspaces, workspacesLoading, notes, notesLoading,
                       saveTimeout, files, noteCounter, clock>>
        /\ Hist

\* the rejection propagates out of switchWorkspace; the store is untouched
SetActiveFail(t) ==
    /\ calls[t].cmd = "set_active_workspace"
    /\ calls' = [calls EXCEPT ![t] = Idle]
    /\ last' = Answer("activate_fail", t)
    /\ UNCHANGED <<storeVars, saveTimeout, files, config, noteCounter, clock>>
    /\ Hist

GetWorkspacesOk(t) ==
    /\ calls[t].cmd = "get_workspaces"
    /\ workspaces' = config.workspaces
    /\ activeWorkspaceId' = config.active_workspace_id
    /\ workspacesLoading' = FALSE
    /\ isCreatingProp' = AfterSet(isCreatingProp, selectedPath, TRUE)
    /\ calls' = [calls EXCEPT ![t] = Idle]
    /\ last' = Answer("workspaces_ok", t)
    /\ UNCHANGED <<notes, notesLoading, selectedPath, noteContent,
                   saveTimeout, files, config, noteCounter, clock>>
    /\ Hist

\* a catch of loadWorkspaces that degrades to no workspaces
GetWorkspacesFailResets(t) ==
    /\ calls[t].cmd = "get_workspaces"
    /\ workspaces' = <<>>
    /\ activeWorkspaceId' = 0
    /\ workspacesLoading' = FALSE
    /\ isCreatingProp' = AfterSet(isCreatingProp, selectedPath, TRUE)
    /\ calls' = [calls EXCEPT ![t] = Idle]
    /\ last' = Answer("workspaces_fail", t)
    /\ UNCHANGED <<notes, notesLoading, selectedPath, noteContent,
                   saveTimeout, files, config, noteCounter, clock>>
    /\ Hist

\* get_workspaces fails: the catch of loadWorkspaces
GetWorkspacesFail(t) ==
    /\ calls[t].cmd = "get_workspaces"
    /\ workspacesLoading' = FALSE
    /\ isCreatingProp' =
          AfterSet(isCreatingProp, selectedPath, workspacesLoading)
    /\ calls' = [calls EXCEPT ![t] = Idle]
    /\ last' = Answer("workspaces_fail", t)
    /\ UNCHANGED <<workspaces, notes, notesLoading, selectedPath,
                   noteContent, activeWorkspaceId, saveTimeout, files,
                   config, noteCounter, clock>>
    /\ Hist

EnsureOk(t) ==
    /\ calls[t].cmd = "ensure_notes_dir"
    /\ calls' = [calls EXCEPT ![t] =
          Call("list_notes", Null, <<>>, "loadNotes", Null, 0, FALSE)]
    /\ last' = Answer("ensure_ok", t)
    /\ UNCHANGED <<storeVars, saveTimeout, files, config, noteCounter, clock>>
    /\ Hist

ListOk(t) ==
    /\ calls[t].cmd = "list_notes"
    /\ notes' = BackendList
    /\ notesLoading' = FALSE
    /\ isCreatingProp' =
          AfterSet(isCreatingProp, selectedPath,
                   <<notes', notesLoading'>> # <<notes, notesLoading>>)
    /\ calls' = [calls EXCEPT ![t] = Idle]
    /\ last' = Answer("list_ok", t)
    /\ UNCHANGED <<workspaces, workspacesLoading, selectedPath, noteContent,
                   activeWorkspaceId, saveTimeout, files, config,
                   noteCounter, clock>>
    /\ Hist

\* ensure_notes_dir or list_notes fails: the catch of loadNotes
LoadFail(t) ==
    /\ calls[t].cmd \in {"ensure_notes_dir", "list_notes"}
    /\ notesLoading' = FALSE
    /\ isCreatingProp' = AfterSet(isCreatingProp, selectedPath, notesLoading)
    /\ calls' = [calls EXCEPT ![t] = Idle]
    /\ last' = Answer("load_fail", t)
    /\ UNCHANGED <<workspaces, workspacesLoading, notes, selectedPath,
                   noteContent, activeWorkspaceId, saveTimeout, files,
                   config, noteCounter, clock>>
    /\ Hist

(***************************************************************************)
(* Initial states.  InitNew is the store as createNotesStore() returns it. *)
(* InitLoaded is the store after loadWorkspaces() and loadNotes() have     *)
(* completed on it, and                                                    *)
(* InitOpen(path) after selectNote(path) has then completed too; both are  *)
(* reached from InitNew by the actions below (SpecNew), and starting from  *)
(* them leaves the budget of UI calls for what follows.                    *)
(***************************************************************************)
BackendAt(fs, cfg) ==
    /\ files = fs
    /\ config = cfg
    /\ noteCounter = Len(fs)
    /\ saveTimeout = 0
    /\ calls = [t \in Tasks |-> Idle]
    /\ clock = 0
    /\ ops = 0
    /\ writeFailed = FALSE
    /\ edited = FALSE
    /\ editsPending = FALSE
    /\ last = NoStep
    /\ before = [workspaces |-> <<>>, notes |-> <<>>, selectedPath |-> Null,
                 noteContent |-> NullContent, activeWorkspaceId |-> 0,
                 saveTimeout |-> 0, calls |-> [t \in Tasks |-> Idle]]

\* the App component is not mounted
NoApp ==
    /\ appContent = <<>>
    /\ localStorage = [w \in WorkspaceIds |-> Null]
    /\ prevWorkspaceRef = 0
    /\ chosen = [w \in WorkspaceIds |-> {}]

InitBackendOf(cfg) == BackendAt(InitialFiles, cfg) /\ NoApp

InitBackend == InitBackendOf(InitialConfig)

InitNew ==
    /\ InitBackend
    /\ workspaces = <<>>
    /\ activeWorkspaceId = 0
    /\ workspacesLoading = TRUE
    /\ notes = <<>>
    /\ notesLoading = TRUE
    /\ selectedPath = Null
    /\ noteContent = NullContent
    /\ isCreatingProp = "getter"
    /\ bufferPaths = {}
    /\ lastSelect = NoSelect
    /\ deletedPaths = {}
    /\ failedFlush = {}

\* what loadWorkspaces() leaves
InitWorkspaces ==
    /\ workspaces = InitialConfig.workspaces
    /\ activeWorkspaceId = InitialConfig.active_workspace_id
    /\ workspacesLoading = FALSE

InitLoaded ==
    /\ InitBackend
    /\ InitWorkspaces
    /\ notes = BackendList
    /\ notesLoading = FALSE
    /\ selectedPath = Null
    /\ noteContent = NullContent
    /\ isCreatingProp = "false"
    /\ bufferPaths = {}
    /\ lastSelect = NoSelect
    /\ deletedPaths = {}
    /\ failedFlush = {}

InitOpen(path) ==
    LET parsed == parseContent(InitialFiles[FileIndex(path)].content)
    IN  /\ InitBackend
        /\ InitWorkspaces
        /\ notes = BackendList
        /\ notesLoading = FALSE
        /\ selectedPath = path
        /\ noteContent = Content(parsed.title, parsed.body, FALSE)
        /\ isCreatingProp = "false"
        /\ bufferPaths = {path}
        /\ lastSelect = NoSelect
        /\ deletedPaths = {}
        /\ failedFlush = {}

\* no call of the codec on its own is being followed
NoCodec ==
    [title |-> <<>>, body |-> <<>>, text |-> <<>>, built |-> <<>>,
     parsed |-> [title |-> <<>>, body |-> <<>>], done |-> "idle"]

(***************************************************************************)
(* The useSettings hook (hooks/use-settings.ts).  The text of the item     *)
(* "write-settings" is a sequence of JSON tokens: the punctuation, the     *)
(* literals true and false, and whole strings ("vimMode" is the string     *)
(* with its quotes).  A JSON value is a literal, a string or an object;    *)
(* an object is the sequence of its entries in the order of its own keys.  *)
(***************************************************************************)
MaxJsonLen == 5
JsonPunct == {"{", "}", ":", ","}
JsonLiterals == {"true", "false"}
IsJsonString(tok) == tok \notin JsonPunct \cup JsonLiterals

Lit(tok) == [t |-> "lit", tok |-> tok, entries |-> <<>>]
Str(tok) == [t |-> "str", tok |-> tok, entries |-> <<>>]
Obj(entries) == [t |-> "obj", tok |-> "", entries |-> entries]

\* the keys that are array indexes, in ascending order
IndexKeys == <<"0", "1", "2", "3", "4", "5", "6">>
HasKey(entries, k) == \E i \in 1..Len(entries) : entries[i].key = k
ValueOf(entries, k) ==
    entries[CHOOSE i \in 1..Len(entries) : entries[i].key = k].value
\* obj[k] = v on an ordinary object: an own key keeps its place; a new
\* index key goes among the index keys in ascending order, before the other
\* keys; any other new key goes last
DefineProperty(entries, k, v) ==
    LET
        IndexOfKey(x) == CHOOSE i \in 1..Len(IndexKeys) : IndexKeys[i] = x
    IN
    LET
        IsIndexKey(x) == \E i \in 1..Len(IndexKeys) : IndexKeys[i] = x
    IN
    LET e == [key |-> k, value |-> v]
    IN  IF HasKey(entries, k)
        THEN [i \in 1..Len(entries) |->
                 IF entries[i].key = k THEN e ELSE entries[i]]
        ELSE IF IsIndexKey(k)
        THEN LET lower == {i \in 1..Len(entries) :
                              /\ IsIndexKey(entries[i].key)
                              /\ IndexOfKey(entries[i].key) < IndexOfKey(k)}
                 n == Cardinality(lower)
             IN  SubSeq(entries, 1, n) \o <<e>>
                     \o SubSeq(entries, n + 1, Len(entries))
        ELSE Append(entries, e)

\* the own enumerable properties that { ...value } copies
OwnProperties(value) ==
    LET
        \* the characters of a string
        Chars(tok) ==
            CASE tok = "vimMode" -> <<"v", "i", "m", "M", "o", "d", "e">>
              [] tok = "other" -> <<"o", "t", "h", "e", "r">>
              [] OTHER -> <<tok>>
    IN
    CASE value.t = "obj" -> value.entries
      [] value.t = "str" ->
            [i \in 1..Len(Chars(value.tok)) |->
                [key |-> IndexKeys[i], value |-> Str(Chars(value.tok)[i])]]
      [] OTHER -> <<>>

\* { ...target, ...props }
RECURSIVE SpreadOver(_, _)
SpreadOver(target, props) ==
    IF props = <<>> THEN target
    ELSE SpreadOver(DefineProperty(target, Head(props).key, Head(props).value),
                    Tail(props))

\* JSON.parse: the value at token i and the index after it, or a failure
NoParse == [ok |-> FALSE, value |-> Lit("false"), next |-> 0]
RECURSIVE ParseValueAt(_, _)
RECURSIVE ParseMembersAt(_, _, _, _)
ParseValueAt(text, i) ==
    IF i > Len(text) THEN NoParse
    ELSE IF text[i] \in JsonLiterals
    THEN [ok |-> TRUE, value |-> Lit(text[i]), next |-> i + 1]
    ELSE IF IsJsonString(text[i])
    THEN [ok |-> TRUE, value |-> Str(text[i]), next |-> i + 1]
    ELSE IF text[i] = "{" THEN ParseMembersAt(text, i + 1, <<>>, TRUE)
    ELSE NoParse

ParseMembersAt(text, i, entries, first) ==
    IF i > Len(text) THEN NoParse
    ELSE IF first /\ text[i] = "}"
    THEN [ok |-> TRUE, value |-> Obj(entries), next |-> i + 1]
    ELSE IF i + 2 <= Len(text) /\ IsJsonString(text[i]) /\ text[i + 1] = ":"
    THEN LET v == ParseValueAt(text, i + 2)
         IN  IF ~v.ok \/ v.next > Len(text) THEN NoParse
             ELSE LET es == DefineProperty(entries, text[i], v.value)
                  IN  IF text[v.next] = "}"
                      THEN [ok |-> TRUE, value |-> Obj(es),
                            next |-> v.next + 1]
                      ELSE IF text[v.next] = ","
                      THEN ParseMembersAt(text, v.next + 1, es, FALSE)
                      ELSE NoParse
    ELSE NoParse

\* JSON.parse(text): ok is FALSE when it throws
JSONparse(text) ==
    LET r == ParseValueAt(text, 1)
    IN  IF r.ok /\ r.next = Len(text) + 1 THEN r ELSE NoParse

\* JSON.stringify(value)
RECURSIVE JSONstringify(_)
RECURSIVE StringifyEntries(_)
JSONstringify(value) ==
    IF value.t = "obj"
    THEN <<"{">> \o StringifyEntries(value.entries) \o <<"}">>
    ELSE <<value.tok>>

StringifyEntries(entries) ==
    IF entries = <<>> THEN <<>>
    ELSE <<Head(entries).key, ":">> \o JSONstringify(Head(entries).value)
            \o (IF Len(entries) > 1 THEN <<",">> ELSE <<>>)
            \o StringifyEntries(Tail(entries))

DEFAULT_SETTINGS == <<[key |-> "vimMode", value |-> Lit("false")]>>

\* a load that lets the defaults win: { ...JSON.parse(stored), ...DEFAULT_SETTINGS }
LoadDefaultsLast(present, item) ==
    IF present /\ item # <<>> /\ JSONparse(item).ok
    THEN SpreadOver(SpreadOver(<<>>, OwnProperties(JSONparse(item).value)),
                    DEFAULT_SETTINGS)
    ELSE DEFAULT_SETTINGS

\* loadSettings(), on the item: present is FALSE when getItem returns null
loadSettings(present, item) ==
    IF present /\ item # <<>>
    THEN LET parsed == JSONparse(item)
         IN  IF parsed.ok
             THEN SpreadOver(SpreadOver(<<>>, DEFAULT_SETTINGS),
                             OwnProperties(parsed.value))
             ELSE DEFAULT_SETTINGS
    ELSE DEFAULT_SETTINGS

(***************************************************************************)
(* The state of the hook.                                                  *)
(*   mounted   a component using the hook is mounted                       *)
(*   settings  the state of useState, <<>> when not mounted                *)
(*   present   localStorage has the item                                   *)
(*   item      the text of the item                                        *)
(*   ev        the step taken last                                         *)
(*   loaded    the item as the mount found it, when ev is "mount"          *)
(*   was       the settings of the component unmounted last                *)
(*   reload    a component was unmounted before                            *)
(*   n         the setSetting calls made                                   *)
(***************************************************************************)
NoSettings ==
    [mounted |-> FALSE, settings |-> <<>>, present |-> FALSE, item |-> <<>>,
     ev |-> "init", loaded |-> [present |-> FALSE, item |-> <<>>],
     was |-> <<>>, reload |-> FALSE,
     n |-> 0]

\* the hook before its first mount, over what localStorage may hold
SettingsInit ==
    LET
        JsonTextsUpTo(n) ==
            UNION {[1..k -> JsonPunct \cup JsonLiterals \cup {"vimMode", "other"}] : k \in 0..n}
    IN
    /\ InitLoaded
    /\ codec = NoCodec
    /\ appEditor = NoEditor
    /\ \/ useSettings = NoSettings
       \/ \E text \in JsonTextsUpTo(MaxJsonLen) :
             useSettings = [NoSettings EXCEPT !.present = TRUE, !.item = text]

\* the effect on [settings]: setItem(STORAGE_KEY, JSON.stringify(settings))
Persisted(u) ==
    [u EXCEPT !.present = TRUE, !.item = JSONstringify(Obj(u.settings))]

\* the first render of a component using the hook, and its effect
SettingsMount ==
    /\ ~useSettings.mounted
    /\ useSettings' =
          Persisted([useSettings EXCEPT
              !.mounted = TRUE,
              !.settings = loadSettings(useSettings.present, useSettings.item),
              !.ev = "mount",
              !.loaded = [present |-> useSettings.present,
                          item |-> useSettings.item]])
    /\ UNCHANGED <<programVars, codec, appEditor>>

\* setSetting(key, value), the render and the effect
SetSetting(key, value) ==
    /\ useSettings.mounted
    /\ useSettings.n < MaxOps
    /\ useSettings' =
          Persisted([useSettings EXCEPT
              !.settings = SpreadOver(SpreadOver(<<>>, useSettings.settings),
                                      <<[key |-> key, value |-> value]>>),
              !.ev = "setSetting",
              !.loaded = NoSettings.loaded,
              !.n = useSettings.n + 1])
    /\ UNCHANGED <<programVars, codec, appEditor>>

\* the component goes away (the window is reloaded)
SettingsUnmount ==
    /\ useSettings.mounted
    /\ useSettings' = [useSettings EXCEPT !.mounted = FALSE,
                                          !.settings = <<>>,
                                          !.ev = "unmount",
                                          !.loaded = NoSettings.loaded,
                                          !.was = useSettings.settings,
                                          !.reload = TRUE]
    /\ UNCHANGED <<programVars, codec, appEditor>>

SettingsNext ==
    \/ SettingsMount
    \/ \E value \in JsonLiterals : SetSetting("vimMode", Lit(value))
    \/ SettingsUnmount

SettingsSpec == SettingsInit /\ [][SettingsNext]_vars

\* the store of the notes
Init ==
    /\ codec = NoCodec
    /\ useSettings = NoSettings
    /\ appEditor = NoEditor
    /\ \/ InitNew
       \/ InitLoaded
       \/ \E i \in 1..Len(InitialFiles) : InitOpen(InitialFiles[i].path)

\* the backend answers the request of task t
Respond(t) ==
    \/ \E newPath \in WriteAnswers(calls[t].path, calls[t].content) :
          WriteOk(t, newPath)
    \/ WriteFail(t)
    \/ ReadOk(t)
    \/ ReadFail(t)
    \/ CreateOk(t)
    \/ CreateFail(t)
    \/ SetActiveOk(t)
    \/ SetActiveFail(t)
    \/ GetWorkspacesOk(t)
    \/ GetWorkspacesFail(t)
    \/ DeleteOk(t)
    \/ DeleteFail(t)
    \/ \E newPath \in ReorderAnswers(calls[t].arg) : ReorderOk(t, newPath)
    \/ ReorderFail(t)
    \/ EnsureOk(t)
    \/ ListOk(t)
    \/ LoadFail(t)

Next ==
    \/ LoadWorkspaces
    \/ LoadNotes
    \/ \E path \in KnownPaths : SelectNote(path)
    \/ DeselectNote
    \/ CreateNote
    \/ \E path \in KnownPaths : DeleteNote(path)
    \/ \E path \in KnownPaths : \E newIndex \in {0, 1} :
          ReorderNote(path, newIndex)
    \/ \E title \in Titles : SetTitle(title)
    \/ \E body \in {<<"y">>, <<"z">>} : SetBody(body)
    \/ Flush
    \/ \E workspaceId \in WorkspaceIds : SwitchWorkspace(workspaceId)
    \/ TimerFire
    \/ \E t \in Tasks : Respond(t)

Spec == Init /\ [][Next]_vars

\* the same store from its construction
SpecNew ==
    /\ InitNew /\ codec = NoCodec /\ useSettings = NoSettings
    /\ appEditor = NoEditor
    /\ [][Next]_vars

(***************************************************************************)
(* delete_note in two steps: the backend removes the file, and later its   *)
(* answer reaches deleteNote.  Between the two the store runs on, with the *)
(* note still listed and possibly selected.                                *)
(***************************************************************************)
\* the backend processes delete_note; the answer is on its way
DeleteProcessed(t) ==
    LET c == calls[t]
    IN  /\ c.cmd = "delete_note"
        /\ files' = BackendDelete(c.arg)
        /\ calls' = [calls EXCEPT ![t] = [c EXCEPT !.cmd = "delete_note_done"]]
        /\ last' = Answer("delete_processed", t)
        /\ UNCHANGED <<storeVars, saveTimeout, config, noteCounter, clock>>
        /\ Hist

\* the answer of a delete_note processed earlier reaches deleteNote
DeleteDelivered(t) ==
    LET c == calls[t]
        path == c.arg
        hit == selectedPath = path
    IN  /\ c.cmd = "delete_note_done"
        /\ notes' = WithoutPath(notes, path)
        /\ selectedPath' = IF hit THEN Null ELSE selectedPath
        /\ noteContent' = IF hit THEN NullContent ELSE noteContent
        /\ isCreatingProp' = AfterSet(isCreatingProp, selectedPath, TRUE)
        /\ calls' = [calls EXCEPT ![t] = Idle]
        /\ last' = [Answer("delete_delivered", t) EXCEPT
                       !.then = IF hit THEN "unselect" ELSE "none",
                       !.sel = selectedPath]
        /\ UNCHANGED <<workspaces, workspacesLoading, notesLoading,
                       activeWorkspaceId, saveTimeout, files, config,
                       noteCounter, clock>>
        /\ Hist

NextDelete ==
    \/ Next
    \/ \E t \in Tasks : DeleteProcessed(t)
    \/ \E t \in Tasks : DeleteDelivered(t)

\* the store with the two-step delete_note
SpecDelete == Init /\ [][NextDelete]_vars

\* the loaded store after createNote() was called on it: the temporary
\* note is first in the directory and selected, its buffer is empty and
\* clean, and create_note is unanswered
InitCreating ==
    LET tempPath == TempPath(1)
        tempNote == [name |-> WholeName(tempPath), path |-> tempPath,
                     title |-> NewPage]
    IN  /\ files = InitialFiles
        /\ config = InitialConfig
        /\ noteCounter = Len(InitialFiles)
        /\ saveTimeout = 0
        /\ calls = [t \in Tasks |->
                      IF t = 1
                      THEN Call("create_note", Null, <<>>, "createNote",
                                tempPath, 0, FALSE)
                      ELSE Idle]
        /\ clock = 1
        /\ ops = 0
        /\ writeFailed = FALSE
        /\ edited = FALSE
        /\ editsPending = FALSE
        /\ last = NoStep
        /\ before = [workspaces |-> <<>>, notes |-> <<>>,
                     selectedPath |-> Null, noteContent |-> NullContent,
                     activeWorkspaceId |-> 0, saveTimeout |-> 0,
                     calls |-> [t \in Tasks |-> Idle]]
        /\ NoApp
        /\ codec = NoCodec
        /\ useSettings = NoSettings
        /\ appEditor = NoEditor
        /\ InitWorkspaces
        /\ notes = <<tempNote>> \o BackendList
        /\ notesLoading = FALSE
        /\ selectedPath = tempPath
        /\ noteContent = Content(<<>>, <<>>, FALSE)
        /\ isCreatingProp = "false"
        /\ bufferPaths = {tempPath}
        /\ lastSelect = NoSelect
        /\ deletedPaths = {}
        /\ failedFlush = {}

\* the same store from a creation under way
SpecCreating == InitCreating /\ [][Next]_vars

\* an armed timer fires and a pending request is answered, eventually; the
\* calls of the UI are under no obligation
FairSpec ==
    /\ Spec
    /\ WF_vars(TimerFire)
    /\ \A t \in Tasks : WF_vars(Respond(t))

(***************************************************************************)
(* The workspace directory: createWorkspace, deleteWorkspace and           *)
(* renameWorkspace, with loadWorkspaces and switchWorkspace, on a store    *)
(* whose workspaces are loaded.  None of the three catches a rejection: it *)
(* propagates to the caller (last.then = "throw").                         *)
(***************************************************************************)
\* the position of the workspace with this id in ws, 0 when none:
\* ws.findIndex(w => w.id === id)
WorkspaceIndex(ws, id) ==
    LET hits == {i \in 1..Len(ws) : ws[i].id = id}
    IN  IF hits = {} THEN 0 ELSE CHOOSE i \in hits : \A j \in hits : i <= j

\* a successor that is the last workspace left
LastIdOrNull(ws) == IF Len(ws) = 0 THEN 0 ELSE ws[Len(ws)].id

\* state.workspaces[0]?.id ?? null
FirstIdOrNull(ws) == IF Len(ws) = 0 THEN 0 ELSE ws[1].id

\* an addition at the head of the list
PushFront(ws, w) == <<w>> \o ws

\* state.workspaces.push(workspace)
Push(ws, w) == Append(ws, w)

\* the ids of the workspaces the store lists
ListedIds == {workspaces[i].id : i \in 1..Len(workspaces)}

CreateWorkspace(name) ==
    /\ ops < MaxOps
    /\ HasFreeTask
    /\ calls' = [calls EXCEPT ![FreeTask] =
          Call("create_workspace", Null, name, "createWorkspace", Null, 0,
               FALSE)]
    /\ last' = Step("createWorkspace", FreeTask, Null)
    /\ UNCHANGED <<storeVars, saveTimeout, files, config, noteCounter, clock>>
    /\ Hist

DeleteWorkspace(workspaceId) ==
    /\ ops < MaxOps
    /\ HasFreeTask
    /\ calls' = [calls EXCEPT ![FreeTask] =
          Call("delete_workspace", Null, <<>>, "deleteWorkspace", Null,
               workspaceId, FALSE)]
    /\ last' = [Step("deleteWorkspace", FreeTask, Null) EXCEPT
                   !.ws = workspaceId]
    /\ UNCHANGED <<storeVars, saveTimeout, files, config, noteCounter, clock>>
    /\ Hist

RenameWorkspace(workspaceId, newName) ==
    /\ ops < MaxOps
    /\ HasFreeTask
    /\ calls' = [calls EXCEPT ![FreeTask] =
          Call("rename_workspace", Null, newName, "renameWorkspace", Null,
               workspaceId, FALSE)]
    /\ last' = [Step("renameWorkspace", FreeTask, Null) EXCEPT
                   !.ws = workspaceId]
    /\ UNCHANGED <<storeVars, saveTimeout, files, config, noteCounter, clock>>
    /\ Hist

\* create_workspace succeeds: the backend makes a workspace under an id of
\* its own and answers with it; the store appends it
CreateWorkspaceOk(t) ==
    LET c == calls[t]
        workspace == [id |-> config.next_id, name |-> c.content,
                      shortcut |-> ""]
    IN  /\ c.cmd = "create_workspace"
        /\ config' = [config EXCEPT
                         !.workspaces = Append(@, workspace),
                         !.next_id = @ + 1]
        /\ workspaces' = Push(workspaces, workspace)
        /\ isCreatingProp' = AfterSet(isCreatingProp, selectedPath, TRUE)
        /\ calls' = [calls EXCEPT ![t] = Idle]
        /\ last' = [Answer("create_workspace_ok", t) EXCEPT !.then = "return"]
        /\ UNCHANGED <<workspacesLoading, notes, notesLoading, selectedPath,
                       noteContent, activeWorkspaceId, saveTimeout, files,
                       noteCounter, clock>>
        /\ Hist

\* a request of the workspace directory is rejected: the rejection leaves
\* the action at its await, no set(...) is reached
WorkspaceCallFail(t) ==
    /\ calls[t].cmd \in {"create_workspace", "delete_workspace",
                         "rename_workspace"}
    /\ calls' = [calls EXCEPT ![t] = Idle]
    /\ last' = [Answer("workspace_call_fail", t) EXCEPT !.then = "throw"]
    /\ UNCHANGED <<storeVars, saveTimeout, files, config, noteCounter, clock>>
    /\ Hist

\* the workspace the backend may hold as active once it has deleted the
\* one with this id: the one it held (the fake invoker), or, when that is
\* the one deleted, any of those left
ActiveAfterDelete(workspaceId) ==
    {config.active_workspace_id} \cup
        (IF config.active_workspace_id # workspaceId THEN {}
         ELSE {config.workspaces[i].id : i \in
                  {j \in 1..Len(config.workspaces) :
                      config.workspaces[j].id # workspaceId}})

\* delete_workspace succeeds, the backend going on with newActive
DeleteWorkspaceOk(t, newActive) ==
    LET
        \* ws.filter(w => w.id !== id)
        WithoutWorkspace(ws, id) == SelectSeq(ws, LAMBDA w : w.id # id)
    IN
    LET c == calls[t]
        left == WithoutWorkspace(workspaces, c.ws)
    IN  /\ c.cmd = "delete_workspace"
        /\ newActive \in ActiveAfterDelete(c.ws)
        /\ config' = [config EXCEPT
                         !.workspaces = SelectSeq(@, LAMBDA w : w.id # c.ws),
                         !.active_workspace_id = newActive]
        /\ workspaces' = left
        /\ activeWorkspaceId' =
              IF activeWorkspaceId = c.ws THEN FirstIdOrNull(left)
              ELSE activeWorkspaceId
        /\ isCreatingProp' = AfterSet(isCreatingProp, selectedPath, TRUE)
        /\ calls' = [calls EXCEPT ![t] = Idle]
        /\ last' = [Answer("delete_workspace_ok", t) EXCEPT !.then = "return"]
        /\ UNCHANGED <<workspacesLoading, notes, notesLoading, selectedPath,
                       noteContent, saveTimeout, files, noteCounter, clock>>
        /\ Hist

\* rename_workspace succeeds: the backend renames the workspace it holds
\* under the id and answers with it
RenameWorkspaceOk(t) ==
    LET
        \* const idx = findIndex(...); if (idx !== -1) state.workspaces[idx] = updated
        ReplaceWorkspace(ws, id, updated) ==
            LET idx == WorkspaceIndex(ws, id)
            IN  IF idx = 0 THEN ws ELSE [ws EXCEPT ![idx] = updated]
    IN
    LET c == calls[t]
        k == WorkspaceIndex(config.workspaces, c.ws)
        updated == [config.workspaces[k] EXCEPT !.name = c.content]
    IN  /\ c.cmd = "rename_workspace"
        /\ k # 0
        /\ config' = [config EXCEPT !.workspaces[k] = updated]
        /\ workspaces' = ReplaceWorkspace(workspaces, c.ws, updated)
        /\ isCreatingProp' = AfterSet(isCreatingProp, selectedPath, TRUE)
        /\ calls' = [calls EXCEPT ![t] = Idle]
        /\ last' = [Answer("rename_workspace_ok", t) EXCEPT !.then = "return"]
        /\ UNCHANGED <<workspacesLoading, notes, notesLoading, selectedPath,
                       noteContent, activeWorkspaceId, saveTimeout, files,
                       noteCounter, clock>>
        /\ Hist

\* the store with its workspaces and notes loaded, on a backend of one
\* workspace or of two
WorkspaceInit ==
    LET
        \* the backend of a first start: the one workspace
        DefaultConfig ==
            [workspaces |-> << [id |-> 1, name |-> "Notes", shortcut |-> "1"] >>,
             active_workspace_id |-> 1,
             next_id |-> 2]
    IN
    /\ codec = NoCodec
    /\ useSettings = NoSettings
    /\ appEditor = NoEditor
    /\ \E cfg \in {DefaultConfig, InitialConfig} :
          /\ InitBackendOf(cfg)
          /\ workspaces = cfg.workspaces
          /\ activeWorkspaceId = cfg.active_workspace_id
    /\ workspacesLoading = FALSE
    /\ notes = BackendList
    /\ notesLoading = FALSE
    /\ selectedPath = Null
    /\ noteContent = NullContent
    /\ isCreatingProp = "false"
    /\ bufferPaths = {}
    /\ lastSelect = NoSelect
    /\ deletedPaths = {}
    /\ failedFlush = {}

WorkspaceRespond(t) ==
    \/ SetActiveOk(t)
    \/ SetActiveFail(t)
    \/ GetWorkspacesOk(t)
    \/ GetWorkspacesFail(t)
    \/ CreateWorkspaceOk(t)
    \/ \E newActive \in ActiveAfterDelete(calls[t].ws) :
          DeleteWorkspaceOk(t, newActive)
    \/ RenameWorkspaceOk(t)
    \/ WorkspaceCallFail(t)

\* switchWorkspace is called with the id of a listed workspace
WorkspaceNext ==
    \/ LoadWorkspaces
    \/ \E workspaceId \in ListedIds : SwitchWorkspace(workspaceId)
    \/ \E name \in {"Home", "Lab"} : CreateWorkspace(name)
    \/ \E workspaceId \in
          ListedIds \cup {config.workspaces[i].id :
                              i \in 1..Len(config.workspaces)} :
             DeleteWorkspace(workspaceId)
    \/ \E workspaceId \in
          ListedIds \cup {config.workspaces[i].id :
                              i \in 1..Len(config.workspaces)} :
          \E newName \in {"Home", "Lab"} :
          RenameWorkspace(workspaceId, newName)
    \/ \E t \in Tasks : WorkspaceRespond(t)

WorkspaceSpec == WorkspaceInit /\ [][WorkspaceNext]_vars

(***************************************************************************)
(* The codec on its own: parseContent and buildContent are exported pure   *)
(* functions.  The arguments are drawn from the strings over a small       *)
(* alphabet that holds the characters the functions look at.               *)
(***************************************************************************)
\* the strings of at most n characters
StringsUpTo(n) == UNION {[1..k -> {"#", " ", NL, "a"}] : k \in 0..n}

\* buildContent(title, body) is about to be called, or parseContent(text)
CodecInit ==
    /\ InitLoaded
    /\ useSettings = NoSettings
    /\ appEditor = NoEditor
    /\ \/ \E title \in StringsUpTo(MaxTitleLen) :
             \E body \in StringsUpTo(MaxBodyLen) :
                codec = [NoCodec EXCEPT !.title = title, !.body = body,
                                        !.done = "args"]
       \/ \E text \in StringsUpTo(MaxTextLen) :
             codec = [NoCodec EXCEPT !.text = text, !.done = "text"]

\* buildContent(title, body)
CodecBuild ==
    /\ codec.done = "args"
    /\ codec' = [codec EXCEPT !.built = buildContent(codec.title, codec.body),
                              !.done = "built"]
    /\ UNCHANGED <<programVars, useSettings, appEditor>>

\* parseContent(text)
CodecParse ==
    /\ codec.done = "text"
    /\ codec' = [codec EXCEPT !.parsed = parseContent(codec.text),
                              !.done = "parsed"]
    /\ UNCHANGED <<programVars, useSettings, appEditor>>

\* parseContent(buildContent(title, body))
CodecParseBuilt ==
    /\ codec.done = "built"
    /\ codec' = [codec EXCEPT !.parsed = parseContent(codec.built),
                              !.done = "reparsed"]
    /\ UNCHANGED <<programVars, useSettings, appEditor>>

CodecNext ==
    \/ CodecBuild
    \/ CodecParse
    \/ CodecParseBuilt

CodecSpec == CodecInit /\ [][CodecNext]_vars

(***************************************************************************)
(* The App component (app.tsx) with its hooks useWorkspaces and useFiles:  *)
(* the component keeps, per workspace, the path of the note selected last  *)
(* in localStorage, and selects it again when the workspace becomes        *)
(* active.  workspaces, activeWorkspaceId and workspacesLoading are the    *)
(* state of useWorkspaces; notes, selectedPath, content (appContent) and notesLoading   *)
(* that of useFiles.  A step is one synchronous run of JavaScript followed *)
(* by the renders it causes and the effects of those renders.  The calls   *)
(* of the UI followed are the workspace shortcut, the choice of a note in  *)
(* the sidebar and the closing of the editor.                              *)
(***************************************************************************)
\* what the App component leaves alone
appFrame == <<noteContent, isCreatingProp, saveTimeout, files, noteCounter,
              clock, codec, useSettings, appEditor>>

\* files.get(path) ?? ""
TextAt(path) ==
    IF FileIndex(path) = 0 THEN <<>> ELSE files[FileIndex(path)].content

\* the path loadWorkspaceNotes gives to selectNote, Null when it calls none
RestoredPath(savedPath, entries) ==
    IF savedPath # Null /\ \E i \in 1..Len(entries) : entries[i].path = savedPath
    THEN savedPath
    ELSE IF Len(entries) > 0 THEN entries[1].path ELSE Null

\* the effect on [activeWorkspaceId] goes on to call loadWorkspaceNotes
Activated(aw1) == aw1 # activeWorkspaceId /\ aw1 # 0

\* the render after a step that left selectedPath = sp1, content = c1 and
\* activeWorkspaceId = aw1, with the effects of the component: the effect
\* on [selectedPath, activeWorkspaceId] and, on an activation, the
\* synchronous start of loadWorkspaceNotes, which deselects; the render
\* that the deselection causes runs the first effect again, with no path
Render(sp1, c1, aw1) ==
    LET changed == aw1 # activeWorkspaceId \/ sp1 # selectedPath
    IN  /\ activeWorkspaceId' = aw1
        /\ prevWorkspaceRef' =
              IF changed /\ prevWorkspaceRef # aw1 THEN aw1
              ELSE prevWorkspaceRef
        /\ localStorage' =
              IF changed /\ prevWorkspaceRef = aw1 /\ sp1 # Null /\ aw1 # 0
              THEN [localStorage EXCEPT ![aw1] = sp1]
              ELSE localStorage
        /\ selectedPath' = IF Activated(aw1) THEN Null ELSE sp1
        /\ appContent' = IF Activated(aw1) THEN <<>> ELSE c1

\* loadNotes() up to its first request, called by loadWorkspaceNotes of
\* the workspace ws, or on its own when ws = 0
LoadNotesCall(ws) ==
    Call("ensure_notes_dir", Null, <<>>, "loadNotes", Null, ws, FALSE)

\* selectNote(path) was called while the workspace was active
Asked(path) ==
    IF activeWorkspaceId = 0 THEN chosen
    ELSE [chosen EXCEPT ![activeWorkspaceId] = @ \cup {path}]

\* the first render: the mount effects of useWorkspaces and useFiles call
\* loadWorkspaces() and loadNotes()
AppMount ==
    /\ last.ev = "init"
    /\ workspacesLoading
    /\ notesLoading
    /\ InFlight = {}
    /\ calls' = [calls EXCEPT
          ![1] = Call("get_workspaces", Null, <<>>, "loadWorkspaces", Null,
                      0, FALSE),
          ![2] = LoadNotesCall(0)]
    /\ last' = Step("mount", 1, Null)
    /\ UNCHANGED <<workspaces, workspacesLoading, notes, notesLoading,
                   selectedPath, activeWorkspaceId, config, appVars,
                   appFrame>>
    /\ Track

\* Cmd+digit of a workspace that is not the active one: switchWorkspace
AppSwitchWorkspace(workspaceId) ==
    /\ ops < MaxOps
    /\ HasFreeTask
    /\ workspaceId # activeWorkspaceId
    /\ calls' = [calls EXCEPT ![FreeTask] =
          Call("set_active_workspace", Null, <<>>, "switchWorkspace", Null,
               workspaceId, FALSE)]
    /\ last' = [Step("switchWorkspace", FreeTask, Null) EXCEPT
                   !.ws = workspaceId]
    /\ UNCHANGED <<workspaces, workspacesLoading, notes, notesLoading,
                   selectedPath, activeWorkspaceId, config, appVars,
                   appFrame>>
    /\ Track

\* a note of the sidebar is chosen: selectNote(path)
AppSelectNote(path) ==
    /\ ops < MaxOps
    /\ HasFreeTask
    /\ calls' = [calls EXCEPT ![FreeTask] =
          Call("read_note", path, <<>>, "selectNote", path, 0, FALSE)]
    /\ chosen' = Asked(path)
    /\ last' = Step("selectNote", FreeTask, path)
    /\ UNCHANGED <<workspaces, workspacesLoading, notes, notesLoading,
                   selectedPath, activeWorkspaceId, config, appContent,
                   localStorage, prevWorkspaceRef, appFrame>>
    /\ Track

\* the editor is closed: deselectNote()
AppDeselectNote ==
    /\ ops < MaxOps
    /\ Render(Null, <<>>, activeWorkspaceId)
    /\ last' = Step("deselectNote", 0, selectedPath)
    /\ UNCHANGED <<workspaces, workspacesLoading, notes, notesLoading,
                   calls, config, chosen, appFrame>>
    /\ Track

\* get_workspaces succeeds
AppGetWorkspacesOk(t) ==
    LET aw1 == config.active_workspace_id
    IN  /\ calls[t].cmd = "get_workspaces"
        /\ workspaces' = config.workspaces
        /\ workspacesLoading' = FALSE
        /\ Render(selectedPath, appContent, aw1)
        /\ calls' = [calls EXCEPT ![t] =
              IF Activated(aw1) THEN LoadNotesCall(aw1) ELSE Idle]
        /\ last' = Answer("workspaces_ok", t)
        /\ UNCHANGED <<notes, notesLoading, config, chosen, appFrame>>
        /\ Track

\* get_workspaces fails: the catch and the finally of loadWorkspaces
AppGetWorkspacesFail(t) ==
    /\ calls[t].cmd = "get_workspaces"
    /\ workspacesLoading' = FALSE
    /\ calls' = [calls EXCEPT ![t] = Idle]
    /\ last' = Answer("workspaces_fail", t)
    /\ UNCHANGED <<workspaces, notes, notesLoading, selectedPath,
                   activeWorkspaceId, config, appVars, appFrame>>
    /\ Track

\* set_active_workspace succeeds: setActiveWorkspaceId(workspaceId)
AppSetActiveOk(t) ==
    LET aw1 == calls[t].ws
    IN  /\ calls[t].cmd = "set_active_workspace"
        /\ config' = [config EXCEPT !.active_workspace_id = aw1]
        /\ Render(selectedPath, appContent, aw1)
        /\ calls' = [calls EXCEPT ![t] =
              IF Activated(aw1) THEN LoadNotesCall(aw1) ELSE Idle]
        /\ last' = Answer("activate_ok", t)
        /\ UNCHANGED <<workspaces, workspacesLoading, notes, notesLoading,
                       chosen, appFrame>>
        /\ Track

\* set_active_workspace fails: switchWorkspace rethrows
AppSetActiveFail(t) ==
    /\ calls[t].cmd = "set_active_workspace"
    /\ calls' = [calls EXCEPT ![t] = Idle]
    /\ last' = [Answer("activate_fail", t) EXCEPT !.then = "throw"]
    /\ UNCHANGED <<workspaces, workspacesLoading, notes, notesLoading,
                   selectedPath, activeWorkspaceId, config, appVars,
                   appFrame>>
    /\ Track

\* loadNotes has returned: loadWorkspaceNotes reads the key of its
\* workspace and asks for the list again; a loadNotes on its own is done
AfterLoadNotes(ws) ==
    IF ws = 0 THEN Idle
    ELSE Call("list_notes", localStorage[ws], <<>>, "loadWorkspaceNotes",
              Null, ws, FALSE)

\* ensure_notes_dir succeeds in loadNotes
AppEnsureOk(t) ==
    /\ calls[t].cmd = "ensure_notes_dir"
    /\ calls' = [calls EXCEPT ![t] =
          Call("list_notes", Null, <<>>, "loadNotes", Null, calls[t].ws,
               FALSE)]
    /\ last' = Answer("ensure_ok", t)
    /\ UNCHANGED <<workspaces, workspacesLoading, notes, notesLoading,
                   selectedPath, activeWorkspaceId, config, appVars,
                   appFrame>>
    /\ Track

\* list_notes succeeds in loadNotes: setNotes(entries)
AppListOk(t) ==
    /\ calls[t].cmd = "list_notes"
    /\ calls[t].op = "loadNotes"
    /\ notes' = BackendList
    /\ notesLoading' = FALSE
    /\ calls' = [calls EXCEPT ![t] = AfterLoadNotes(calls[t].ws)]
    /\ last' = Answer("list_ok", t)
    /\ UNCHANGED <<workspaces, workspacesLoading, selectedPath,
                   activeWorkspaceId, config, appVars, appFrame>>
    /\ Track

\* a request of loadNotes fails: its catch and its finally
AppLoadFail(t) ==
    /\ calls[t].cmd \in {"ensure_notes_dir", "list_notes"}
    /\ calls[t].op = "loadNotes"
    /\ notesLoading' = FALSE
    /\ calls' = [calls EXCEPT ![t] = AfterLoadNotes(calls[t].ws)]
    /\ last' = Answer("load_fail", t)
    /\ UNCHANGED <<workspaces, workspacesLoading, notes, selectedPath,
                   activeWorkspaceId, config, appVars, appFrame>>
    /\ Track

\* list_notes succeeds in loadWorkspaceNotes: the saved path if the entries
\* hold it, else the first entry, is given to selectNote
AppEntriesOk(t) ==
    LET path == RestoredPath(calls[t].path, BackendList)
    IN  /\ calls[t].cmd = "list_notes"
        /\ calls[t].op = "loadWorkspaceNotes"
        /\ calls' = [calls EXCEPT ![t] =
              IF path = Null THEN Idle
              ELSE Call("read_note", path, <<>>, "selectNote", path,
                        calls[t].ws, FALSE)]
        /\ chosen' = IF path = Null THEN chosen ELSE Asked(path)
        /\ last' = [Answer("entries_ok", t) EXCEPT !.answer = path]
        /\ UNCHANGED <<workspaces, workspacesLoading, notes, notesLoading,
                       selectedPath, activeWorkspaceId, config, appContent,
                       localStorage, prevWorkspaceRef, appFrame>>
        /\ Track

\* list_notes fails in loadWorkspaceNotes: nothing catches the rejection
AppEntriesFail(t) ==
    /\ calls[t].cmd = "list_notes"
    /\ calls[t].op = "loadWorkspaceNotes"
    /\ calls' = [calls EXCEPT ![t] = Idle]
    /\ last' = Answer("entries_fail", t)
    /\ UNCHANGED <<workspaces, workspacesLoading, notes, notesLoading,
                   selectedPath, activeWorkspaceId, config, appVars,
                   appFrame>>
    /\ Track

\* read_note succeeds in selectNote: setSelectedPath(path), setContent(text)
AppReadOk(t) ==
    /\ calls[t].cmd = "read_note"
    /\ Render(calls[t].path, TextAt(calls[t].path), activeWorkspaceId)
    /\ calls' = [calls EXCEPT ![t] = Idle]
    /\ last' = Answer("read_ok", t)
    /\ UNCHANGED <<workspaces, workspacesLoading, notes, notesLoading,
                   config, chosen, appFrame>>
    /\ Track

\* read_note fails: the catch of selectNote
AppReadFail(t) ==
    /\ calls[t].cmd = "read_note"
    /\ calls' = [calls EXCEPT ![t] = Idle]
    /\ last' = Answer("read_fail", t)
    /\ UNCHANGED <<workspaces, workspacesLoading, notes, notesLoading,
                   selectedPath, activeWorkspaceId, config, appVars,
                   appFrame>>
    /\ Track

\* the component before its first render, over a backend that holds some
\* of the notes and a localStorage that earlier runs have written
AppNew(fs, st) ==
    /\ BackendAt(fs, InitialConfig)
    /\ codec = NoCodec
    /\ useSettings = NoSettings
    /\ noteContent = NullContent
    /\ isCreatingProp = "false"
    /\ bufferPaths = {}
    /\ lastSelect = NoSelect
    /\ deletedPaths = {}
    /\ failedFlush = {}
    /\ workspaces = <<>>
    /\ activeWorkspaceId = 0
    /\ workspacesLoading = TRUE
    /\ notes = <<>>
    /\ notesLoading = TRUE
    /\ selectedPath = Null
    /\ appContent = <<>>
    /\ localStorage = st
    /\ prevWorkspaceRef = 0
    /\ chosen = [w \in WorkspaceIds |-> {st[w]} \ {Null}]

\* the component once its mount, the loads and the selection that the
\* activation of the first workspace starts have completed
AppSettled(fs, st) ==
    LET sel == RestoredPath(st[1], BackendList)
        stored == IF sel = Null THEN st ELSE [st EXCEPT ![1] = sel]
    IN  /\ BackendAt(fs, InitialConfig)
        /\ codec = NoCodec
        /\ useSettings = NoSettings
        /\ noteContent = NullContent
        /\ isCreatingProp = "false"
        /\ bufferPaths = {}
        /\ lastSelect = NoSelect
        /\ deletedPaths = {}
        /\ failedFlush = {}
        /\ workspaces = InitialConfig.workspaces
        /\ activeWorkspaceId = InitialConfig.active_workspace_id
        /\ workspacesLoading = FALSE
        /\ notes = BackendList
        /\ notesLoading = FALSE
        /\ selectedPath = sel
        /\ appContent = TextAt(sel)
        /\ localStorage = stored
        /\ prevWorkspaceRef = InitialConfig.active_workspace_id
        /\ chosen = [w \in WorkspaceIds |-> {st[w], stored[w]} \ {Null}]

AppInit ==
    /\ appEditor = NoEditor
    /\ \E n \in 0..Len(InitialFiles) :
       \E st \in [WorkspaceIds ->
                    {Null} \cup {InitialFiles[i].path :
                                    i \in 1..Len(InitialFiles)}] :
          \/ AppNew(SubSeq(InitialFiles, 1, n), st)
          \/ AppSettled(SubSeq(InitialFiles, 1, n), st)

AppRespond(t) ==
    \/ AppGetWorkspacesOk(t)
    \/ AppGetWorkspacesFail(t)
    \/ AppSetActiveOk(t)
    \/ AppSetActiveFail(t)
    \/ AppEnsureOk(t)
    \/ AppListOk(t)
    \/ AppLoadFail(t)
    \/ AppEntriesOk(t)
    \/ AppEntriesFail(t)
    \/ AppReadOk(t)
    \/ AppReadFail(t)

AppNext ==
    \/ AppMount
    \/ \E workspaceId \in ListedIds : AppSwitchWorkspace(workspaceId)
    \/ \E i \in 1..Len(notes) : AppSelectNote(notes[i].path)
    \/ AppDeselectNote
    \/ \E t \in Tasks : AppRespond(t)

AppSpec == AppInit /\ [][AppNext]_vars

(***************************************************************************)
(* Deleting a note from the App (app.tsx, handleDeleteRequest and the      *)
(* confirmation Modal; useFiles' deleteNote; the Editor's debounced save). *)
(* appEditor.title and appEditor.body are the Editor's titleRef.current    *)
(* and the document of its view; they are written to the backend 800 ms    *)
(* after the last input, by a timer that keeps the text and the path it    *)
(* was armed with.  In a call, path is the path of the request and arg the *)
(* selectedPath that the deleteNote of the render closed over.             *)
(***************************************************************************)
MaxStoredLen == 3
\* body.trim() === ""
IsBlank(s) == \A i \in 1..Len(s) : s[i] \in {" ", NL}

\* buildContent(titleRef.current, view.state.doc.toString())
FullContent == buildContent(appEditor.title, appEditor.body)

\* what the delete request leaves alone
deleteFrame == <<workspaces, workspacesLoading, notesLoading,
                 activeWorkspaceId, noteContent, isCreatingProp,
                 saveTimeout, config, noteCounter, clock, codec, useSettings,
                 localStorage, prevWorkspaceRef, chosen>>

\* the App with a note selected, over a backend whose first note holds any
\* short text
DeleteInit ==
    LET
        \* the Editor mounted with the content read from the backend
        EditorOn(content) ==
            [NoEditor EXCEPT !.title = parseContent(content).title,
                             !.body = parseContent(content).body,
                             !.lastSaved = content]
    IN
    \E text \in StringsUpTo(MaxStoredLen) :
      \E i \in 1..Len(InitialFiles) :
        LET fs == [InitialFiles EXCEPT ![1].content = text]
            st == [w \in WorkspaceIds |->
                      IF w = 1 THEN InitialFiles[i].path ELSE Null]
        IN  /\ AppSettled(fs, st)
            /\ appEditor = EditorOn(fs[i].content)

\* the user types in the title input or in the editor: handleTitleChange,
\* or the update listener; either arms debouncedSave(fullContent, filePath)
EditorInput(title, body) ==
    LET full == buildContent(title, body)
    IN  /\ ops < MaxOps
        /\ selectedPath # Null
        /\ <<title, body>> # <<appEditor.title, appEditor.body>>
        /\ title = appEditor.title \/ body = appEditor.body
        /\ appEditor' = [appEditor EXCEPT
              !.title = title, !.body = body,
              !.timer = [armed |-> TRUE, text |-> full, path |-> selectedPath]]
        /\ last' = Step("editorInput", 0, selectedPath)
        /\ UNCHANGED <<notes, selectedPath, appContent, calls, files,
                       deleteFrame>>
        /\ Track

\* the debounce timer fires: saveNow(text, path)
EditorTimer ==
    LET tm == appEditor.timer
        skip == tm.text = appEditor.lastSaved \/ appEditor.isSaving
    IN  /\ tm.armed
        /\ skip \/ HasFreeTask
        /\ appEditor' = [appEditor EXCEPT !.timer = NoEditor.timer,
                                          !.isSaving = @ \/ ~skip]
        /\ calls' = IF skip THEN calls
                    ELSE [calls EXCEPT ![FreeTask] =
                            Call("write_note", tm.path, tm.text, "saveNow",
                                 Null, 0, FALSE)]
        /\ last' = [Step("editorTimer", IF skip THEN 0 ELSE FreeTask, tm.path)
                       EXCEPT !.then = IF skip THEN "none" ELSE "save"]
        /\ UNCHANGED <<notes, selectedPath, appContent, files, deleteFrame>>
        /\ Track

\* write_note succeeds: for saveNow, lastSavedRef.current = text
EditorWriteOk(t) ==
    LET c == calls[t]
    IN  /\ c.cmd = "write_note"
        /\ files' = BackendWrite(c.path, c.content, c.path)
        /\ appEditor' =
              IF c.op = "saveNow"
              THEN [appEditor EXCEPT !.lastSaved = c.content,
                                     !.isSaving = FALSE]
              ELSE appEditor
        /\ calls' = [calls EXCEPT ![t] = Idle]
        /\ last' = Answer("save_ok", t)
        /\ UNCHANGED <<notes, selectedPath, appContent, deleteFrame>>
        /\ Track

\* write_note fails: the catch and the finally of saveNow
EditorWriteFail(t) ==
    LET c == calls[t]
    IN  /\ c.cmd = "write_note"
        /\ appEditor' =
              IF c.op = "saveNow"
              THEN [appEditor EXCEPT !.isSaving = FALSE]
              ELSE appEditor
        /\ calls' = [calls EXCEPT ![t] = Idle]
        /\ last' = Answer("save_fail", t)
        /\ UNCHANGED <<notes, selectedPath, appContent, files, deleteFrame>>
        /\ Track

\* the shortcut or the command palette on the selected note, or the
\* sidebar's button on a listed note: handleDeleteRequest(path)
DeleteRequest(path) ==
    /\ ops < MaxOps
    /\ HasFreeTask
    /\ path = selectedPath \/ \E i \in 1..Len(notes) : notes[i].path = path
    /\ path # Null
    /\ calls' = [calls EXCEPT ![FreeTask] =
          Call("read_note", path, <<>>, "handleDeleteRequest", selectedPath,
               0, FALSE)]
    /\ last' = Step("deleteRequest", FreeTask, path)
    /\ UNCHANGED <<notes, selectedPath, appContent, files, appEditor,
                   deleteFrame>>
    /\ Track

\* read_note answers handleDeleteRequest: the text without its title line
\* is blank and deleteNote(path) is called, or the confirmation is opened
DeleteReadOk(t) ==
    LET c == calls[t]
        body == parseContent(TextAt(c.path)).body
    IN  /\ c.cmd = "read_note"
        /\ c.op = "handleDeleteRequest"
        /\ IF IsBlank(body)
           THEN /\ calls' = [calls EXCEPT ![t] =
                      Call("delete_note", c.path, <<>>, "deleteNote", c.arg,
                           0, FALSE)]
                /\ appEditor' = appEditor
                /\ last' = [Answer("delete_read_ok", t) EXCEPT
                               !.then = "delete"]
           ELSE /\ calls' = [calls EXCEPT ![t] = Idle]
                /\ appEditor' = [appEditor EXCEPT !.deleteConfirm = c.path]
                /\ last' = [Answer("delete_read_ok", t) EXCEPT
                               !.then = "confirm"]
        /\ UNCHANGED <<notes, selectedPath, appContent, files, deleteFrame>>
        /\ Track

\* read_note fails: handleDeleteRequest rejects
DeleteReadFail(t) ==
    LET c == calls[t]
    IN  /\ c.cmd = "read_note"
        /\ c.op = "handleDeleteRequest"
        /\ calls' = [calls EXCEPT ![t] = Idle]
        /\ last' = Answer("delete_read_fail", t)
        /\ UNCHANGED <<notes, selectedPath, appContent, files, appEditor,
                       deleteFrame>>
        /\ Track

\* the Delete button of the confirmation: deleteNote(deleteConfirm.path)
ConfirmDelete ==
    LET path == appEditor.deleteConfirm
    IN  /\ ops < MaxOps
        /\ HasFreeTask
        /\ path # Null
        /\ calls' = [calls EXCEPT ![FreeTask] =
              Call("delete_note", path, <<>>, "deleteNote", selectedPath,
                   0, FALSE)]
        /\ appEditor' = [appEditor EXCEPT !.deleteConfirm = Null,
                                          !.confirmed = @ \cup {path}]
        /\ last' = Step("confirmDelete", FreeTask, path)
        /\ UNCHANGED <<notes, selectedPath, appContent, files, deleteFrame>>
        /\ Track

\* the Cancel button, or the Modal closed
CancelDelete ==
    /\ ops < MaxOps
    /\ appEditor.deleteConfirm # Null
    /\ appEditor' = [appEditor EXCEPT !.deleteConfirm = Null]
    /\ last' = Step("cancelDelete", 0, appEditor.deleteConfirm)
    /\ UNCHANGED <<notes, selectedPath, appContent, calls, files,
                   deleteFrame>>
    /\ Track

\* delete_note succeeds: the selection is cleared when the deleteNote called
\* had closed over the path deleted, and the Editor unmounts: its cleanup
\* clears the timer and writes the text it holds when that differs from
\* lastSavedRef.current; deleteNote goes on to loadNotes()
AppDeleteOk(t) ==
    LET c == calls[t]
        unmount == c.arg = c.path /\ selectedPath # Null
        rewrite == unmount /\ FullContent # appEditor.lastSaved
        listing == [calls EXCEPT ![t] =
                      Call("list_notes", Null, <<>>, "loadNotes", Null, 0,
                           FALSE)]
    IN  /\ c.cmd = "delete_note"
        /\ files' = BackendDelete(c.path)
        /\ selectedPath' = IF c.arg = c.path THEN Null ELSE selectedPath
        /\ appContent' = IF c.arg = c.path THEN <<>> ELSE appContent
        /\ appEditor' =
              IF unmount
              THEN [NoEditor EXCEPT
                       !.deleteConfirm = appEditor.deleteConfirm,
                       !.confirmed = appEditor.confirmed]
              ELSE appEditor
        /\ IF rewrite
           THEN \E u \in Tasks \ {t} :
                   /\ calls[u].cmd = "none"
                   /\ calls' = [listing EXCEPT ![u] =
                         Call("write_note", selectedPath, FullContent,
                              "cleanup", Null, 0, FALSE)]
           ELSE calls' = listing
        /\ last' = [Answer("note_deleted", t) EXCEPT
                       !.then = IF rewrite THEN "rewrite" ELSE "none"]
        /\ UNCHANGED <<notes, deleteFrame>>
        /\ Track

\* delete_note fails: the catch of deleteNote
AppDeleteFail(t) ==
    /\ calls[t].cmd = "delete_note"
    /\ calls' = [calls EXCEPT ![t] = Idle]
    /\ last' = Answer("note_delete_fail", t)
    /\ UNCHANGED <<notes, selectedPath, appContent, files, appEditor,
                   deleteFrame>>
    /\ Track

\* the loadNotes() of deleteNote: setNotes(entries)
AppDeleteListOk(t) ==
    /\ calls[t].cmd = "list_notes"
    /\ notes' = BackendList
    /\ calls' = [calls EXCEPT ![t] = Idle]
    /\ last' = Answer("list_ok", t)
    /\ UNCHANGED <<selectedPath, appContent, files, appEditor, deleteFrame>>
    /\ Track

\* ensure_notes_dir or list_notes fails: the catch of loadNotes
AppDeleteListFail(t) ==
    /\ calls[t].cmd = "list_notes"
    /\ calls' = [calls EXCEPT ![t] = Idle]
    /\ last' = Answer("list_fail", t)
    /\ UNCHANGED <<notes, selectedPath, appContent, files, appEditor,
                   deleteFrame>>
    /\ Track

DeleteNext ==
    \/ \E title \in Titles : EditorInput(title, appEditor.body)
    \/ \E body \in {<<>>, <<"y">>} : EditorInput(appEditor.title, body)
    \/ EditorTimer
    \/ \E i \in 1..Len(InitialFiles) : DeleteRequest(InitialFiles[i].path)
    \/ ConfirmDelete
    \/ CancelDelete
    \/ \E t \in Tasks :
          \/ EditorWriteOk(t)
          \/ EditorWriteFail(t)
          \/ DeleteReadOk(t)
          \/ DeleteReadFail(t)
          \/ AppDeleteOk(t)
          \/ AppDeleteFail(t)
          \/ AppDeleteListOk(t)
          \/ AppDeleteListFail(t)

DeleteRequestSpec == DeleteInit /\ [][DeleteNext]_vars

(***************************************************************************)
(* Claims.                                                                 *)
(***************************************************************************)
Buffer == buildContent(noteContent.title, noteContent.body)
\* the last step installed a buffer (selectNote, createNote) or cleared it
\* (switchWorkspace); the rollback of a failed creation is left aside
Replaced ==
    /\ last.then \in {"install", "create", "clear"}
    /\ last.ev # "create_fail"

\* C1: at most one write per document is in flight: no two unanswered
\* write_note requests carry the same path.
C1_OneWriteInFlight ==
    \A t \in Writes : \A u \in Writes :
        calls[t].path = calls[u].path => t = u

\* C2: isDirty is cleared only by the acknowledgement of a write that
\* carried exactly the buffer's current content: when an acknowledgement
\* has just turned a dirty buffer clean, the content acknowledged is
\* encode(title, body) of that buffer.
C2_DirtyClearedByExactWrite ==
    ( /\ last.ev = "write_ok"
      /\ last.wasDirty
      /\ ~Replaced
      /\ noteContent.some
      /\ ~noteContent.isDirty )
        => last.content = Buffer

\* C3: no unsaved edit is lost on a context switch: when selectNote,
\* createNote or switchWorkspace has just replaced or cleared noteContent
\* and no write has failed, the buffer it replaced was not dirty.
C3_NoDirtyBufferReplaced ==
    (Replaced /\ ~writeFailed) => ~last.lostDirty

\* C4: flush is a serialization barrier: when selectNote issues read_note,
\* and when selectNote, createNote or switchWorkspace replaces or clears
\* the selection, no write_note for the previously selected document is
\* still unanswered.
C4_FlushIsBarrier ==
    /\ last.then = "read" =>
          \A t \in Writes : calls[t].path # selectedPath
    /\ Replaced =>
          \A t \in Writes : calls[t].path # last.sel

\* C5: no write goes to a temporary identifier: no write_note request in
\* flight carries a path that starts with "temp-".
C5_NoWriteToTemp ==
    \A t \in Writes : ~StartsWithTemp(calls[t].path)

\* C6: edits made during CREATING are persisted on confirmation: when
\* create_note succeeds for the selected temporary note and its buffer is
\* dirty, the store has issued exactly one write_note to the real path,
\* and it carries the buffer as it is at that moment.
C6_EditsWrittenOnConfirm ==
    ( /\ last.ev = "create_ok"
      /\ last.wasDirty
      /\ StartsWithTemp(last.sel) )
        => \E t \in Writes :
              /\ calls[t].path = last.path
              /\ calls[t].content = Buffer
              /\ \A u \in Writes : calls[u].path = last.path => u = t

\* C7: every edit is eventually persisted: with timers fired and requests
\* answered, from some point on an edited buffer of a selected
\* non-temporary note whose writes all succeeded is clean, and the backend
\* holds encode(title, body) of it.
C7_EveryEditPersisted ==
    LET
        \* an edited buffer of a note with a real path, and no write has failed
        EditedSelection ==
            /\ edited
            /\ ~writeFailed
            /\ noteContent.some
            /\ selectedPath # Null
            /\ ~StartsWithTemp(selectedPath)
    IN
    LET
        \* the content the backend holds for the selected document
        Stored ==
            IF FileIndex(selectedPath) = 0 THEN <<>>
            ELSE files[FileIndex(selectedPath)].content
    IN
    <>[](EditedSelection =>
            (~noteContent.isDirty /\ FileIndex(selectedPath) # 0
                /\ Stored = Buffer))

\* C8: debounce coalescing: after setBody on a selected non-temporary note
\* exactly one timer is pending, and when the timer fires after such calls
\* exactly one write_note is issued, carrying the final body.
C8_DebounceCoalesces ==
    /\ ( /\ last.ev = "setBody"
         /\ noteContent.some
         /\ selectedPath # Null
         /\ ~StartsWithTemp(selectedPath) )
           => saveTimeout = 1
    /\ (last.ev = "timer" /\ last.edits)
           => /\ last.n = 1
              /\ calls[last.task].cmd = "write_note"
              /\ calls[last.task].path = selectedPath
              /\ calls[last.task].content = Buffer

OtherCreatePending == \E t \in InFlight : calls[t].cmd = "create_note"

\* C10: optimistic creation, success path: createNote puts an entry with a
\* "temp-" path first in the directory, selects it and installs an empty
\* clean buffer; when create_note then succeeds with nothing in between,
\* the first entry and selectedPath carry the path the backend returned,
\* and, no other creation being under way, no entry carries the temporary
\* path any more.
C10_OptimisticCreate ==
    /\ last.then = "create"
           => /\ Len(notes) > 0
              /\ notes[1].path = last.path
              /\ notes[1].name = WholeName(last.path)
              /\ notes[1].title = NewPage
              /\ StartsWithTemp(last.path)
              /\ selectedPath = last.path
              /\ noteContent = Content(<<>>, <<>>, FALSE)
    /\ (last.ev = "create_ok" /\ last.direct)
           => /\ StartsWithTemp(last.sel)
              /\ notes[1].path = last.path
              /\ notes[1].name = LastSegment(last.path)
              /\ FileIndex(last.path) # 0
              /\ selectedPath = last.path
              /\ ~StartsWithTemp(selectedPath)
              /\ ~OtherCreatePending
                    => \A i \in 1..Len(notes) : notes[i].path # last.sel

\* createNote and then the success of its create_note, nothing in between
C10_Witness ==
    /\ last.ev = "create_ok"
    /\ last.direct
    /\ ~OtherCreatePending
    /\ notes[1].path = selectedPath

\* the request that the last step answered
Answered == before.calls[last.task]

\* the directory is before.notes with the first entry of path old, if any,
\* carrying path np and its name, and nothing else changed
FirstEntryRenamed(old, np) ==
    /\ Len(notes) = Len(before.notes)
    /\ \A i \in 1..Len(notes) :
          IF /\ before.notes[i].path = old
             /\ \A j \in 1..(i - 1) : before.notes[j].path # old
          THEN notes[i] = [before.notes[i] EXCEPT
                              !.path = np, !.name = LastSegment(np)]
          ELSE notes[i] = before.notes[i]

\* C11: create confirmation respects a changed selection: when create_note
\* succeeds the directory entry of the temporary path gets the real path,
\* and selectedPath gets it only if it still was the temporary path;
\* otherwise selectedPath and noteContent are left as they were.
C11_ConfirmKeepsOtherSelection ==
    last.ev = "create_ok"
        => /\ FirstEntryRenamed(Answered.arg, last.path)
           /\ IF before.selectedPath = Answered.arg
              THEN selectedPath = last.path
              ELSE /\ selectedPath = before.selectedPath
                   /\ noteContent = before.noteContent

\* C12: create failure rolls back only the optimistic state: when
\* create_note fails the temporary entry leaves the directory and the other
\* entries stay, and selectedPath and noteContent are cleared only if
\* selectedPath still was the temporary path; another selection and its
\* buffer are kept.
C12_FailureKeepsOtherSelection ==
    LET
        \* the directory is before.notes without its entries of path p
        EntriesRemoved(p) ==
            notes = SelectSeq(before.notes, LAMBDA n : n.path # p)
    IN
    last.ev = "create_fail"
        => /\ EntriesRemoved(Answered.arg)
           /\ IF before.selectedPath = Answered.arg
              THEN selectedPath = Null /\ noteContent = NullContent
              ELSE /\ selectedPath = before.selectedPath
                   /\ noteContent = before.noteContent

\* write_note has just answered with a path other than the one sent, and
\* the flush was not that of a createNote, which goes on to install its note
Reconciled ==
    /\ last.ev = "write_ok"
    /\ last.answer # Answered.path
    /\ last.then # "create"

\* C13: identifier reconciliation after a write is atomic: the step that
\* acknowledges a write_note answered with another path leaves the buffer
\* clean, selectedPath at the returned path and the directory entry of the
\* path sent carrying the returned path and its last segment as name; no
\* entry keeps the old path, and the number and order of entries are kept.
C13_ReconciliationAtomic ==
    Reconciled
        => /\ noteContent.some => ~noteContent.isDirty
           /\ noteContent.some = before.noteContent.some
           /\ selectedPath = last.answer
           /\ FirstEntryRenamed(Answered.path, last.answer)
           /\ \A i \in 1..Len(notes) : notes[i].path # Answered.path

\* a write was answered with another path and its entry follows
C13_Witness ==
    /\ Reconciled
    /\ before.selectedPath = Answered.path
    /\ \E i \in 1..Len(notes) :
          /\ before.notes[i].path = Answered.path
          /\ notes[i].path = selectedPath

\* C14: flush() is a no-op when nothing needs saving: called, by the UI or
\* by the debounce timer, with no buffer, with a clean buffer, or while the
\* selected path is temporary, it issues no backend request and leaves the
\* store unchanged (so a second flush() after an acknowledged one, with no
\* edit in between, sends nothing).
C14_FlushNoOp ==
    LET
        \* the store as the last step found it, and no request issued by the step
        NothingDone ==
            /\ workspaces = before.workspaces
            /\ notes = before.notes
            /\ selectedPath = before.selectedPath
            /\ noteContent = before.noteContent
            /\ activeWorkspaceId = before.activeWorkspaceId
            /\ calls = before.calls
    IN
    ( /\ last.ev \in {"flush", "timer"}
      /\ \/ ~before.noteContent.some
         \/ ~before.noteContent.isDirty
         \/ StartsWithTemp(before.selectedPath) )
        => NothingDone

\* C15: write failure keeps the edit pending: the step in which write_note
\* fails leaves the buffer (title, body, isDirty), selectedPath and the
\* directory as they were, arms no timer and issues no write; and when the
\* buffer still holds the content that failed, it is dirty, so that a
\* flush() sends that content again.  (The createNote whose flush failed
\* goes on to install its note in the same step: left aside here.)
C15_WriteFailureKeepsEdit ==
    (last.ev = "write_fail" /\ last.then # "create")
        => /\ noteContent = before.noteContent
           /\ selectedPath = before.selectedPath
           /\ notes = before.notes
           /\ saveTimeout = before.saveTimeout
           /\ last.n = 0
           /\ Writes = {t \in Tasks : before.calls[t].cmd = "write_note"}
                          \ {last.task}
           /\ ( /\ noteContent.some
                /\ selectedPath = Answered.path
                /\ Buffer = Answered.content )
                 => /\ noteContent.isDirty
                    /\ NeedsFlush(selectedPath, noteContent, isCreatingProp)

\* the requests in flight are those of before the answer, less the one
\* answered
OnlyAnswered == calls = [before.calls EXCEPT ![last.task] = Idle]

\* C16: selectNote(path): the step in which read_note succeeds installs
\* selectedPath = path together with the decoded text as a clean buffer
\* (title and body of parseContent(text), isDirty = false) and leaves the
\* directory alone; the step in which read_note fails leaves selectedPath,
\* noteContent and the directory exactly as they were.  Neither issues a
\* request.
C16_SelectInstallsOrKeeps ==
    /\ last.ev = "read_ok" =>
          LET text == files[FileIndex(Answered.path)].content
          IN  /\ FileIndex(Answered.path) # 0
              /\ selectedPath = Answered.arg
              /\ noteContent = [some |-> TRUE,
                                title |-> parseContent(text).title,
                                body |-> parseContent(text).body,
                                isDirty |-> FALSE]
              /\ notes = before.notes
              /\ OnlyAnswered
    /\ last.ev = "read_fail" =>
          /\ selectedPath = before.selectedPath
          /\ noteContent = before.noteContent
          /\ notes = before.notes
          /\ OnlyAnswered

\* a read has installed another note, whose text has a title line
C16_Witness ==
    /\ last.ev = "read_ok"
    /\ before.selectedPath # Null
    /\ before.selectedPath # selectedPath
    /\ noteContent.title # <<>>
    /\ noteContent.body # <<>>
    /\ ~noteContent.isDirty

\* the positions at which the directory of before the step lists p
ListedAt(p) == {i \in 1..Len(before.notes) : before.notes[i].path = p}

\* the paths of the directory of before the step are pairwise different
UniqueBefore ==
    \A i \in 1..Len(before.notes) : \A j \in 1..Len(before.notes) :
        before.notes[i].path = before.notes[j].path => i = j

\* C17: deleteNote(p): when delete_note succeeds, the paths of the directory
\* are unique and p is listed, the directory loses exactly the entry of p
\* (one entry fewer, the others in the same order); when p is not listed
\* the directory is unchanged.  selectedPath and noteContent are cleared if
\* selectedPath = p at that moment, and are unchanged otherwise.
C17_DeleteRemovesOne ==
    (last.ev = "delete_ok" /\ UniqueBefore) =>
        LET p == Answered.arg
        IN  /\ \A i \in ListedAt(p) :
                  /\ Len(notes) = Len(before.notes) - 1
                  /\ notes = SubSeq(before.notes, 1, i - 1)
                               \o SubSeq(before.notes, i + 1,
                                         Len(before.notes))
            /\ ListedAt(p) = {} => notes = before.notes
            /\ \A i \in 1..Len(notes) : notes[i].path # p
            /\ IF before.selectedPath = p
               THEN selectedPath = Null /\ noteContent = NullContent
               ELSE /\ selectedPath = before.selectedPath
                    /\ noteContent = before.noteContent
            /\ OnlyAnswered

\* the selected note, listed second, has been deleted
C17_Witness ==
    /\ last.ev = "delete_ok"
    /\ UniqueBefore
    /\ ListedAt(Answered.arg) = {2}
    /\ before.selectedPath = Answered.arg
    /\ before.noteContent.some
    /\ selectedPath = Null
    /\ Len(notes) = Len(before.notes) - 1

\* C18: failed delete or reorder leaves the store unchanged: the step in
\* which delete_note or reorder_note fails leaves the directory,
\* selectedPath and noteContent as they were, and the only change to the
\* requests in flight is that the failed one is gone: no list_notes, no
\* second delete_note or reorder_note.
C18_FailedDeleteReorderNoChange ==
    last.ev \in {"delete_fail", "reorder_fail"} =>
        /\ notes = before.notes
        /\ selectedPath = before.selectedPath
        /\ noteContent = before.noteContent
        /\ workspaces = before.workspaces
        /\ activeWorkspaceId = before.activeWorkspaceId
        /\ saveTimeout = before.saveTimeout
        /\ calls[last.task].cmd = "none"
        /\ OnlyAnswered

\* the deletion or the reorder of the selected, listed note has failed
C18_Witness ==
    /\ last.ev \in {"delete_fail", "reorder_fail"}
    /\ before.selectedPath = Answered.arg
    /\ before.noteContent.some
    /\ ListedAt(Answered.arg) # {}
    /\ selectedPath = Answered.arg

\* the tasks whose request in the calls cs is list_notes
Listing(cs) == {t \in Tasks : cs[t].cmd = "list_notes"}

\* C19: reorderNote(p, i): in the step in which reorder_note succeeds,
\* selectedPath becomes the returned path when the moved note is the selected
\* one (and stays otherwise), and loadNotes is started in every case: its
\* first request, ensure_notes_dir, is in flight, and no list_notes has been
\* requested yet, so the selection is updated before list_notes is asked
\* for.  The buffer and the directory are not touched by the step.
C19_ReorderReselectsThenReloads ==
    last.ev = "reorder_ok" =>
        /\ selectedPath = IF before.selectedPath = Answered.arg
                          THEN last.path ELSE before.selectedPath
        /\ calls[last.task].cmd = "ensure_notes_dir"
        /\ calls[last.task].op = "loadNotes"
        /\ \A t \in Tasks \ {last.task} : calls[t] = before.calls[t]
        /\ Listing(calls) = Listing(before.calls)
        /\ noteContent = before.noteContent
        /\ notes = before.notes

\* the selected note, its buffer dirty, was moved and got another path
C19_Witness ==
    /\ last.ev = "reorder_ok"
    /\ before.selectedPath = Answered.arg
    /\ last.path # Answered.arg
    /\ selectedPath = last.path
    /\ noteContent.some
    /\ noteContent.isDirty
    /\ calls[last.task].cmd = "ensure_notes_dir"

\* C20: deselectNote() sets selectedPath and noteContent to null in the
\* call itself and issues no backend request, even when the buffer is
\* dirty; the directory, the workspaces and activeWorkspaceId are unchanged.
C20_DeselectClearsWithoutFlush ==
    last.ev = "deselectNote" =>
        /\ selectedPath = Null
        /\ noteContent = NullContent
        /\ calls = before.calls
        /\ notes = before.notes
        /\ workspaces = before.workspaces
        /\ activeWorkspaceId = before.activeWorkspaceId

\* a listed note with a dirty buffer has been deselected
C20_Witness ==
    /\ last.ev = "deselectNote"
    /\ before.selectedPath # Null
    /\ before.noteContent.some
    /\ before.noteContent.isDirty
    /\ ~StartsWithTemp(before.selectedPath)
    /\ workspaces # <<>>
    /\ notes # <<>>
    /\ selectedPath = Null

\* the first position at which the directory of before the step lists p,
\* 0 when none: notes.find(n => n.path === p)
FoundAt(p) ==
    IF ListedAt(p) = {} THEN 0
    ELSE CHOOSE i \in ListedAt(p) : \A j \in ListedAt(p) : i <= j

\* the directory is the one of before the step, but for the title of the
\* entry at position k (none when k = 0), which is t
OnlyTitleSet(k, t) ==
    /\ Len(notes) = Len(before.notes)
    /\ \A i \in 1..Len(notes) :
          notes[i] = IF i = k THEN [before.notes[i] EXCEPT !.title = t]
                     ELSE before.notes[i]

\* setTitle or setBody was called with a buffer present
EditedBuffer(ev) == last.ev = ev /\ before.noteContent.some

\* C21, as stated: setTitle(t) and setBody(b) with a buffer present set the
\* buffer's title (resp. body) to the value given and isDirty to true in the
\* call; setTitle(t) sets the title of the directory entry of selectedPath
\* to t, for every t including the empty one; selectedPath, the other field
\* of the buffer and the other directory entries are unchanged.
C21_EditSetsBufferAndEntry ==
    /\ EditedBuffer("setTitle") =>
          /\ noteContent = [before.noteContent EXCEPT
                                !.title = last.content, !.isDirty = TRUE]
          /\ selectedPath = before.selectedPath
          /\ OnlyTitleSet(FoundAt(selectedPath), last.content)
    /\ EditedBuffer("setBody") =>
          /\ noteContent = [before.noteContent EXCEPT
                                !.body = last.content, !.isDirty = TRUE]
          /\ selectedPath = before.selectedPath
          /\ notes = before.notes

\* C21, amended: as above, but the directory entry of selectedPath gets the
\* title t when t is not empty and the title "New Page" when t is empty.
C21_EditSetsBufferAndEntryOrNewPage ==
    /\ EditedBuffer("setTitle") =>
          /\ noteContent = [before.noteContent EXCEPT
                                !.title = last.content, !.isDirty = TRUE]
          /\ selectedPath = before.selectedPath
          /\ OnlyTitleSet(FoundAt(selectedPath),
                          IF last.content = <<>> THEN NewPage
                          ELSE last.content)
    /\ EditedBuffer("setBody") =>
          /\ noteContent = [before.noteContent EXCEPT
                                !.body = last.content, !.isDirty = TRUE]
          /\ selectedPath = before.selectedPath
          /\ notes = before.notes

\* setTitle("") was called on a clean, titled buffer whose note is listed
C21_Witness ==
    /\ EditedBuffer("setTitle")
    /\ last.content = <<>>
    /\ ~before.noteContent.isDirty
    /\ before.noteContent.title # <<>>
    /\ FoundAt(selectedPath) # 0
    /\ Len(notes) >= 2
    /\ notes[FoundAt(selectedPath)].title = NewPage
    /\ noteContent.title = <<>>
    /\ noteContent.isDirty

\* C22: no debounce timer during CREATING: setTitle or setBody called with a
\* buffer while selectedPath is temporary marks the buffer dirty and arms no
\* timer (the timers pending are those of before the call); called on a
\* note with a real path it leaves exactly one timer pending.
C22_NoTimerWhileCreating ==
    (last.ev \in {"setTitle", "setBody"} /\ before.noteContent.some
        /\ selectedPath # Null)
        => /\ noteContent.isDirty
           /\ IF StartsWithTemp(selectedPath)
              THEN saveTimeout = before.saveTimeout
              ELSE saveTimeout = 1

\* C23, as stated: codec round trip: for every title that does not start
\* with the marker "# " and every body, parseContent(buildContent(title,
\* body)) is { title, body }.
C23_RoundTrip ==
    (codec.done = "reparsed" /\ ~StartsWith(codec.title, Marker))
        => codec.parsed = [title |-> codec.title, body |-> codec.body]

\* C23, amended: for every title that holds no newline (whether or not it
\* starts with the marker) and every body, parseContent(buildContent(title,
\* body)) is { title, body }.
C23_RoundTripOneLineTitle ==
    LET
        \* s holds the character c
        Holds(s, c) == \E i \in 1..Len(s) : s[i] = c
    IN
    (codec.done = "reparsed" /\ ~Holds(codec.title, NL))
        => codec.parsed = [title |-> codec.title, body |-> codec.body]

\* a body with a blank first line and a line that starts with the marker
\* came back from the round trip
C23_Witness ==
    /\ codec.done = "reparsed"
    /\ codec.title = <<"a">>
    /\ codec.body = <<NL, "#", " ">>
    /\ codec.parsed.body = codec.body

\* C24: parseContent(text) takes as title the rest, after the marker, of
\* the first line that starts with "# ", wherever that line is, and as body
\* the text without that line, the other lines in their order (a second
\* "# " line and the lines before the title stay in the body; "##" starts
\* no title); when no line starts with "# " the title is "" and the body is
\* the text unchanged.
C24_ParseTakesFirstTitleLine ==
    LET
        \* s without its line from i up to e, and without one newline that
        \* bounded it: the one after it, or else the one before it
        WithoutLine(s, i, e) ==
            IF e <= Len(s) THEN SubSeq(s, 1, i - 1) \o SubSeq(s, e + 1, Len(s))
            ELSE SubSeq(s, 1, i - 2)
    IN
    LET
        \* the position after the last character of the line that starts at i
        LineEnd(s, i) ==
            LET ends == {j \in i..Len(s) + 1 : j = Len(s) + 1 \/ s[j] = NL}
            IN  CHOOSE j \in ends : \A k \in ends : j <= k
    IN
    LET
        \* the positions of s at which a line starts with the marker
        TitleStarts(s) ==
            {i \in 1..Len(s) - 1 :
                /\ i = 1 \/ s[i - 1] = NL
                /\ s[i] = "#"
                /\ s[i + 1] = " "}
    IN
    codec.done = "parsed" =>
        LET text == codec.text
            starts == TitleStarts(text)
        IN  IF starts = {}
            THEN codec.parsed = [title |-> <<>>, body |-> text]
            ELSE LET i == CHOOSE k \in starts : \A m \in starts : k <= m
                     e == LineEnd(text, i)
                 IN  /\ codec.parsed.title = SubSeq(text, i + 2, e - 1)
                     /\ codec.parsed.body = WithoutLine(text, i, e)

\* "# a\n# " was parsed: the second marked line is the body
C24_Witness ==
    /\ codec.done = "parsed"
    /\ codec.text = <<"#", " ", "a", NL, "#", " ">>
    /\ codec.parsed = [title |-> <<"a">>, body |-> <<"#", " ">>]

\* C25: buildContent(title, body) is, for every title and body, "# ", then
\* the title, then a newline, then the body as it is: with an empty title
\* it starts with the line "# ", with an empty body it ends with the
\* newline after the title line.
C25_BuildIsMarkerTitleNewlineBody ==
    codec.done \in {"built", "reparsed"} =>
        LET n == Len(codec.title)
            out == codec.built
        IN  /\ Len(out) = 2 + n + 1 + Len(codec.body)
            /\ out[1] = "#"
            /\ out[2] = " "
            /\ \A i \in 1..n : out[2 + i] = codec.title[i]
            /\ out[n + 3] = NL
            /\ \A i \in 1..Len(codec.body) : out[n + 3 + i] = codec.body[i]

\* buildContent("", "a") was computed
C25_Witness ==
    /\ codec.done = "built"
    /\ codec.title = <<>>
    /\ codec.body = <<"a">>
    /\ codec.built = <<"#", " ", NL, "a">>

\* C26: exactly one workspace is active: once the workspaces are loaded,
\* whenever the list is not empty, activeWorkspaceId is the id of exactly
\* one workspace of the list (switchWorkspace being called with listed ids
\* only).
C26_OneActiveWorkspace ==
    LET
        \* the positions at which the store lists the active workspace
        ActiveAt == {i \in 1..Len(workspaces) : workspaces[i].id = activeWorkspaceId}
    IN
    (~workspacesLoading /\ Len(workspaces) > 0) => Cardinality(ActiveAt) = 1

\* the positions at which the store listed the workspace id before the step
WorkspaceAt(id) ==
    {i \in 1..Len(before.workspaces) : before.workspaces[i].id = id}

\* C27: deleteWorkspace(id): the step in which delete_workspace succeeds
\* removes exactly the workspace with that id (the list is one shorter, the
\* others keep their order; nothing is removed when the id is not listed);
\* when it was the active one, activeWorkspaceId becomes the id of the
\* first workspace left, or null when none is left; otherwise
\* activeWorkspaceId is unchanged.
C27_DeleteWorkspaceMovesActive ==
    last.ev = "delete_workspace_ok" =>
        LET id == Answered.ws
        IN  /\ Cardinality(WorkspaceAt(id)) <= 1
            /\ \A i \in WorkspaceAt(id) :
                  workspaces = SubSeq(before.workspaces, 1, i - 1)
                                 \o SubSeq(before.workspaces, i + 1,
                                           Len(before.workspaces))
            /\ WorkspaceAt(id) = {} => workspaces = before.workspaces
            /\ activeWorkspaceId =
                  IF before.activeWorkspaceId # id
                  THEN before.activeWorkspaceId
                  ELSE IF Len(workspaces) = 0 THEN 0 ELSE workspaces[1].id

\* the active workspace, first of three, was deleted: the second is active
C27_Witness ==
    /\ last.ev = "delete_workspace_ok"
    /\ WorkspaceAt(Answered.ws) = {1}
    /\ before.activeWorkspaceId = Answered.ws
    /\ Len(workspaces) = 2
    /\ activeWorkspaceId = workspaces[1].id
    /\ activeWorkspaceId # workspaces[2].id

\* C28: directory loads are all-or-nothing: loadWorkspaces on success
\* replaces workspaces and activeWorkspaceId with the backend's, loadNotes on
\* success replaces the note list with the backend's listing, list_notes
\* being requested only once ensure_notes_dir was answered; when either load
\* fails, the lists and activeWorkspaceId are as before; in both outcomes the
\* loading flag of the load is false afterwards.
C28_LoadsAllOrNothing ==
    LET
        \* the tasks that asked for list_notes in this step
        NewListing == Listing(calls) \ Listing(before.calls)
    IN
    /\ last.ev = "workspaces_ok" =>
          /\ workspaces = config.workspaces
          /\ activeWorkspaceId = config.active_workspace_id
          /\ ~workspacesLoading
          /\ notes = before.notes
    /\ last.ev = "workspaces_fail" =>
          /\ workspaces = before.workspaces
          /\ activeWorkspaceId = before.activeWorkspaceId
          /\ ~workspacesLoading
          /\ notes = before.notes
    /\ last.ev = "list_ok" =>
          /\ Len(notes) = Len(files)
          /\ \A i \in 1..Len(files) :
                /\ notes[i].path = files[i].path
                /\ notes[i].name = LastSegment(files[i].path)
                /\ notes[i].title = ListedTitle(files[i].content)
          /\ ~notesLoading
          /\ workspaces = before.workspaces
          /\ activeWorkspaceId = before.activeWorkspaceId
    /\ last.ev = "load_fail" =>
          /\ notes = before.notes
          /\ ~notesLoading
          /\ workspaces = before.workspaces
          /\ activeWorkspaceId = before.activeWorkspaceId
    /\ \A t \in NewListing :
          /\ last.ev = "ensure_ok"
          /\ last.task = t
          /\ Answered.cmd = "ensure_notes_dir"

\* get_workspaces has failed on a store that held workspaces
C28_Witness ==
    /\ last.ev = "workspaces_fail"
    /\ Len(before.workspaces) > 0
    /\ workspaces = before.workspaces
    /\ activeWorkspaceId # 0
    /\ ~workspacesLoading

\* C29: workspace create and rename are not optimistic: the calls
\* themselves leave the list alone; the step in which create_workspace
\* succeeds appends exactly the workspace the backend returned, at the end;
\* the step in which rename_workspace succeeds replaces the entry with the
\* id by the one returned and keeps the length and the order of the list;
\* when the request fails, the rejection propagates to the caller, and the
\* list and activeWorkspaceId are unchanged.  activeWorkspaceId is
\* unchanged in each case.
C29_CreateRenameNotOptimistic ==
    LET
        \* the workspace the backend holds under this id
        BackendWorkspace(id) == config.workspaces[WorkspaceIndex(config.workspaces, id)]
    IN
    /\ last.ev \in {"createWorkspace", "renameWorkspace"} =>
          /\ workspaces = before.workspaces
          /\ activeWorkspaceId = before.activeWorkspaceId
    /\ last.ev = "create_workspace_ok" =>
          LET n == Len(workspaces)
          IN  /\ n = Len(before.workspaces) + 1
              /\ SubSeq(workspaces, 1, n - 1) = before.workspaces
              /\ workspaces[n] = config.workspaces[Len(config.workspaces)]
              /\ workspaces[n].name = Answered.content
              /\ \A i \in 1..n - 1 : workspaces[i].id # workspaces[n].id
              /\ activeWorkspaceId = before.activeWorkspaceId
              /\ last.then = "return"
    /\ last.ev = "rename_workspace_ok" =>
          /\ Len(workspaces) = Len(before.workspaces)
          /\ \A i \in 1..Len(workspaces) :
                IF before.workspaces[i].id = Answered.ws
                THEN /\ workspaces[i] = BackendWorkspace(Answered.ws)
                     /\ workspaces[i].id = Answered.ws
                     /\ workspaces[i].name = Answered.content
                ELSE workspaces[i] = before.workspaces[i]
          /\ activeWorkspaceId = before.activeWorkspaceId
          /\ last.then = "return"
    /\ last.ev = "workspace_call_fail" =>
          /\ last.then = "throw"
          /\ workspaces = before.workspaces
          /\ activeWorkspaceId = before.activeWorkspaceId
          /\ OnlyAnswered

\* a workspace was created on a store that lists two
C29_Witness ==
    /\ last.ev = "create_workspace_ok"
    /\ Len(before.workspaces) = 2
    /\ Len(workspaces) = 3
    /\ workspaces[3].name = Answered.content
    /\ workspaces[3].id \notin {workspaces[1].id, workspaces[2].id}

\* C30: selection restore per workspace: when a workspace becomes active
\* and its notes are reloaded, the note selected is the one stored last
\* for that workspace if the fresh list holds it, else the first entry,
\* else none; and the path stored under a workspace's key is always one
\* that was selected while that workspace was active.
C30_SelectionRestoredPerWorkspace ==
    LET
        \* the path stored under a workspace's key is one whose selection was
        \* asked for while that workspace was active
        StoredWasChosen ==
            \A w \in WorkspaceIds :
                localStorage[w] # Null => localStorage[w] \in chosen[w]
    IN
    LET
        \* loadWorkspaceNotes of a workspace selects the path stored under the
        \* workspace's key if the list just fetched holds it, else the first entry
        \* of the list, else nothing
        RestoresStored ==
            LET
                \* the request that selectNote(path) issues
                SelectCall(path, ws) ==
                    Call("read_note", path, <<>>, "selectNote", path, ws, FALSE)
            IN
            last.ev = "entries_ok" =>
                LET path == RestoredPath(localStorage[Answered.ws], BackendList)
                IN  calls[last.task] =
                       IF path = Null THEN Idle ELSE SelectCall(path, Answered.ws)
    IN
    /\ RestoresStored
    /\ StoredWasChosen

\* C32: selection and buffer are always paired: selectedPath is null if
\* and only if noteContent is null.
C32_SelectionAndBufferPaired ==
    (selectedPath = Null) <=> ~noteContent.some

\* C33: a write acknowledgement affects only the document it was issued
\* for: when the selection has changed while the write_note was in flight,
\* the acknowledgement changes neither selectedPath nor the isDirty flag of
\* the buffer that is current, also when the backend answers with a
\* renamed path.
C33_AckTouchesOnlyItsDocument ==
    LET
        \* the selection is no longer the document of the write just acknowledged
        SelectionMovedOn ==
            /\ last.ev = "write_ok"
            /\ last.then # "create"
            /\ before.selectedPath # Answered.path
    IN
    SelectionMovedOn
        => /\ selectedPath = before.selectedPath
           /\ noteContent = before.noteContent

\* the write_note that the last step issued
Issued == calls[last.task]

\* C34: no cross-document write: a write_note that the store issues
\* carries the encoding of the buffer and a path of the document that the
\* buffer was loaded from or created for.
C34_NoCrossDocumentWrite ==
    last.n > 0
        => /\ Issued.cmd = "write_note"
           /\ Issued.content = Buffer
           /\ Issued.path \in bufferPaths

\* C35: the selection always points at a listed note: a step other than
\* the installation of a note by selectNote, taken from a state where
\* selectedPath is null or listed in the directory, leaves selectedPath null
\* or listed in the directory.
C35_SelectionIsListed ==
    LET
        \* the path is null or the directory ns has an entry of it
        NullOrListed(sp, ns) ==
            sp = Null \/ \E i \in 1..Len(ns) : ns[i].path = sp
    IN
    ( /\ last.ev \notin {"init", "read_ok"}
      /\ NullOrListed(before.selectedPath, before.notes) )
        => NullOrListed(selectedPath, notes)

\* C36: last selection wins: when the read_note of an earlier selectNote
\* call returns after the note of the call made last was installed, the
\* selection and the buffer stay those of the note requested last; and
\* the selectedPath and the noteContent that a read installs come from the
\* same read.
C36_LastSelectionWins ==
    LET
        \* the read_note of an earlier selectNote call has just succeeded, after
        \* the call made last had its note installed, which is still selected
        StaleReadArrived ==
            /\ last.ev = "read_ok"
            /\ lastSelect.read = "ok"
            /\ last.task # lastSelect.task
            /\ before.selectedPath = lastSelect.path
    IN
    /\ StaleReadArrived =>
          /\ selectedPath = lastSelect.path
          /\ noteContent = before.noteContent
    /\ (last.ev = "read_ok" /\ ~StaleReadArrived) =>
          /\ selectedPath = Answered.path
          /\ noteContent = Content(parseContent(TextAt(Answered.path)).title,
                                   parseContent(TextAt(Answered.path)).body,
                                   FALSE)

\* C37: a deleted note is never written again: once the backend has
\* processed delete_note(p), no step of the store issues a write_note for
\* p, also while deleteNote is still waiting for the answer.
C37_DeletedNeverWritten ==
    last.n > 0 => Issued.path \notin deletedPaths

\* C38: a failed flush does not cost the user the buffer: when the
\* write_note of the flush inside selectNote, createNote or switchWorkspace
\* has failed, no later step of that action replaces or clears the buffer
\* while it is dirty.
C38_FailedFlushKeepsBuffer ==
    last.task \in failedFlush => ~last.lostDirty

\* C39: the CREATING predicate is derived, not stored: in every reachable
\* state the isCreating value read from the store is TRUE exactly when
\* selectedPath is non-null and starts with "temp-".
C39_IsCreatingDerived ==
    IsCreatingOf(isCreatingProp, selectedPath) <=> (selectedPath # Null /\ StartsWithTemp(selectedPath))

\* C31: settings persistence round trip: a mount loads the defaults
\* (vimMode = false) when the item is absent or is not valid JSON, and
\* otherwise the stored values merged over the defaults; while the hook is
\* mounted, after any number of setSetting calls, the item decodes to the
\* settings in memory, and a reload returns the settings the component had.
C31_SettingsRoundTrip ==
    LET
        \* settings is defaults with the properties props merged over them
        MergedOver(settings, props, defaults) ==
            LET
                KeysOf(entries) == {entries[i].key : i \in 1..Len(entries)}
            IN
            /\ KeysOf(settings) = KeysOf(defaults) \cup KeysOf(props)
            /\ \A k \in KeysOf(settings) :
                  ValueOf(settings, k) =
                      IF HasKey(props, k) THEN ValueOf(props, k)
                      ELSE ValueOf(defaults, k)
    IN
    LET u == useSettings
        stored == JSONparse(u.loaded.item)
    IN  /\ u.ev = "mount" =>
              IF ~u.loaded.present \/ ~stored.ok
              THEN u.settings = <<[key |-> "vimMode", value |-> Lit("false")]>>
              ELSE MergedOver(u.settings, OwnProperties(stored.value),
                              DEFAULT_SETTINGS)
        /\ u.mounted =>
              /\ u.present
              /\ JSONparse(u.item).ok
              /\ JSONparse(u.item).value = Obj(u.settings)
        /\ (u.ev = "mount" /\ u.reload) => u.settings = u.was

\* a reload after setSetting("vimMode", true) has returned vimMode = true
\* over an item that held another key
C31_Witness ==
    /\ useSettings.ev = "mount"
    /\ useSettings.reload
    /\ useSettings.n > 0
    /\ ValueOf(useSettings.settings, "vimMode") = Lit("true")
    /\ HasKey(useSettings.settings, "other")

\* C40: a note with content is never deleted without confirmation: a delete
\* request calls deleteNote directly only when the note's text with its
\* title line removed is blank, the text typed into the editor and not yet
\* written included; otherwise it only opens the confirmation, and a
\* delete_note is issued only by a direct call or by the user's confirmation
\* of that path.
C40_NoDeleteWithoutConfirmation ==
    LET
        \* the text of the note as the user has it: the Editor's for the selected
        \* note, the backend's for any other
        NoteText(path) == IF selectedPath = path THEN FullContent ELSE TextAt(path)
    IN
    LET
        \* handleDeleteRequest has just called deleteNote without a confirmation
        DirectDelete == last.ev = "delete_read_ok" /\ last.then = "delete"
    IN
    /\ DirectDelete =>
          /\ IsBlank(parseContent(TextAt(last.path)).body)
          /\ IsBlank(parseContent(NoteText(last.path)).body)
    /\ (last.ev = "delete_read_ok" /\ ~DirectDelete) =>
          /\ appEditor.deleteConfirm = last.path
          /\ \A t \in Tasks : calls[t].cmd # "delete_note"
                                 \/ before.calls[t].cmd = "delete_note"
    /\ \A t \in Tasks :
          (calls[t].cmd = "delete_note" /\ before.calls[t].cmd # "delete_note")
              => \/ DirectDelete
                 \/ /\ last.ev = "confirmDelete"
                    /\ calls[t].path \in appEditor.confirmed

====
